---- MODULE Spec2Model ----
(***************************************************************************)
(* Model of the material retrieval engine (services/materials).           *)
(*                                                                         *)
(* Numbers.  JavaScript numbers are modelled as exact rationals <<n, d>>   *)
(* with d > 0, kept in lowest terms.  NaN is the pair <<0, 0>> and the     *)
(* value undefined is the empty tuple.  Infinity only occurs inside        *)
(* availabilityScore / timeRangesOverlap and is handled there by cases.    *)
(* An optional field is <<>> when absent and <<v>> when present.           *)
(***************************************************************************)
EXTENDS Integers, Sequences, FiniteSets, TLC

\* ------------------------------------------------------------------ bounds
NumMaterials == 3

MaxHits == 2

\* ------------------------------------------------------------- arithmetic
None == <<>>

Some(v) == <<v>>

IsSome(o) == o # <<>>

Val(o) == o[1]

Undef == <<>>

NaN == <<0, 0>>

IsUndef(x) == x = <<>>

IsNaN(x) == x = <<0, 0>>

Abs(i) == IF i < 0 THEN -i ELSE i

RECURSIVE GCD(_, _)
GCD(a, b) == IF b = 0 THEN a ELSE GCD(b, a % b)

Rat(n, d) ==
    LET s == IF d < 0 THEN -1 ELSE 1
        g == GCD(Abs(n), Abs(d))
    IN  <<(s * n) \div g, (s * d) \div g>>

Num(i) == <<i, 1>>

Zero == <<0, 1>>

One == <<1, 1>>

RAdd(a, b) == Rat(a[1] * b[2] + b[1] * a[2], a[2] * b[2])

RSub(a, b) == Rat(a[1] * b[2] - b[1] * a[2], a[2] * b[2])

RMul(a, b) == Rat(a[1] * b[1], a[2] * b[2])

RDiv(a, b) == Rat(a[1] * b[2], a[2] * b[1])

RLt(a, b) == a[1] * b[2] < b[1] * a[2]

RLe(a, b) == a[1] * b[2] <= b[1] * a[2]

RAbs(a) == <<Abs(a[1]), a[2]>>

RMin(a, b) == IF RLe(a, b) THEN a ELSE b

RMax(a, b) == IF RLe(a, b) THEN b ELSE a

\* JavaScript +, *, /, <, > on numbers that may be NaN (never on undefined).
JAdd(a, b) == IF IsNaN(a) \/ IsNaN(b) THEN NaN ELSE RAdd(a, b)

JMul(a, b) == IF IsNaN(a) \/ IsNaN(b) THEN NaN ELSE RMul(a, b)

JDiv(a, b) == IF IsNaN(a) \/ IsNaN(b) \/ b[1] = 0 THEN NaN ELSE RDiv(a, b)

JLt(a, b) == ~IsNaN(a) /\ ~IsNaN(b) /\ RLt(a, b)

JGt(a, b) == JLt(b, a)

\* x ?? 0
OrZero(x) == IF IsUndef(x) THEN Zero ELSE x

\* ------------------------------------------------------------ the scorers
NormalizedTolerance == <<1, 10000>>

RECURSIVE SumWeighted(_), SumWeights(_)
SumWeighted(scores) ==
    IF scores = <<>> THEN Zero
    ELSE LET h == Head(scores)
         IN  IF IsUndef(h.score) THEN SumWeighted(Tail(scores))
             ELSE JAdd(JMul(h.score, h.weight), SumWeighted(Tail(scores)))

SumWeights(scores) ==
    IF scores = <<>> THEN Zero
    ELSE LET h == Head(scores)
         IN  IF IsUndef(h.score) THEN SumWeights(Tail(scores))
             ELSE RAdd(h.weight, SumWeights(Tail(scores)))

combinedScoreAlwaysDivides(scores) ==
    IF Len(scores) = 0 THEN Zero
    ELSE LET totalWeight == SumWeights(scores)
             weightedScoreSum == SumWeighted(scores)
         IN  IF totalWeight = Zero THEN Zero
             ELSE JDiv(weightedScoreSum, totalWeight)

combinedScore(scores) ==
    IF Len(scores) = 0 THEN Zero
    ELSE LET totalWeight == SumWeights(scores)
             weightedScoreSum == SumWeighted(scores)
             isNormalized == RLt(RAbs(RSub(totalWeight, One)), NormalizedTolerance)
         IN  IF totalWeight = Zero THEN Zero
             ELSE IF isNormalized THEN weightedScoreSum
             ELSE JDiv(weightedScoreSum, totalWeight)

closerIsBetterScore(expected, match) ==
    IF IsUndef(expected) \/ IsUndef(match) THEN Undef
    ELSE IF expected = Zero /\ match = Zero THEN One
    ELSE IF expected = Zero THEN RDiv(One, RAdd(One, RAbs(match)))
    ELSE LET r == RDiv(RAbs(RSub(expected, match)), expected)
         IN  RDiv(One, RAdd(One, r))

lowerIsBetterScorePenalisesBoth(expected, match) ==
    IF IsUndef(expected) \/ IsUndef(match) THEN Undef
    ELSE IF RLe(match, Zero) THEN One
    ELSE IF RLe(expected, Zero) THEN RDiv(One, RAdd(One, match))
    ELSE LET r == RDiv(RAbs(RSub(match, expected)), expected)
         IN  RDiv(One, RAdd(One, r))

lowerIsBetterScore(expected, match) ==
    IF IsUndef(expected) \/ IsUndef(match) THEN Undef
    ELSE IF RLe(match, Zero) THEN One
    ELSE IF RLe(expected, Zero) THEN RDiv(One, RAdd(One, match))
    ELSE LET r == RMax(Zero, RDiv(RSub(match, expected), expected))
         IN  RDiv(One, RAdd(One, r))

\* An optional integer field read as a number or undefined.
NumOf(o) == IF IsSome(o) THEN Num(Val(o)) ELSE Undef

sizeScore(expected, match) ==
    IF ~IsSome(expected) \/ ~IsSome(match) THEN Undef
    ELSE LET e == Val(expected)
             m == Val(match)
             all == << [score |-> closerIsBetterScore(NumOf(e.width), NumOf(m.width)), weight |-> One],
                       [score |-> closerIsBetterScore(NumOf(e.height), NumOf(m.height)), weight |-> One],
                       [score |-> closerIsBetterScore(NumOf(e.depth), NumOf(m.depth)), weight |-> One] >>
             scores == SelectSeq(all, LAMBDA s : ~IsUndef(s.score))
         IN  IF Len(scores) = 0 THEN Undef ELSE combinedScore(scores)

\* Locations are [latitude, longitude], all on one meridian in this model,
\* where the Haversine formula reduces to R * |dLat in radians|.  Coordinates
\* are counted in units of 1000 / R radians (about 0.009 degrees), so that one
\* unit of latitude is 1000 metres of arc.
MetresPerUnit == 1000

Truthy(n) == n # 0

distanceInMeters(expected, match) ==
    IF \/ ~IsSome(expected) \/ ~IsSome(match)
       \/ ~Truthy(Val(expected).latitude) \/ ~Truthy(Val(expected).longitude)
       \/ ~Truthy(Val(match).latitude) \/ ~Truthy(Val(match).longitude)
    THEN Undef
    ELSE Num(MetresPerUnit * Abs(Val(match).latitude - Val(expected).latitude))

MetresPerKm == 1000

isWithinRadiusInMetres(center, point, radiusKm) ==
    IF ~IsSome(center) \/ ~IsSome(point) \/ ~Truthy(radiusKm) THEN TRUE
    ELSE LET distanceM == distanceInMeters(center, point)
         IN  IF IsUndef(distanceM) THEN TRUE
             ELSE RLe(distanceM, Num(radiusKm))

isWithinRadius(center, point, radiusKm) ==
    IF ~IsSome(center) \/ ~IsSome(point) \/ ~Truthy(radiusKm) THEN TRUE
    ELSE LET distanceM == distanceInMeters(center, point)
         IN  IF IsUndef(distanceM) THEN TRUE
             ELSE RLe(distanceM, Num(radiusKm * MetresPerKm))

DecayK == 10000

distancePassFail(expected, match) ==
    IF IsUndef(distanceInMeters(expected, match)) THEN Undef ELSE One

distance(expected, match) ==
    LET d == distanceInMeters(expected, match)
    IN  IF IsUndef(d) THEN Undef
        ELSE RDiv(One, RAdd(One, RDiv(d, Num(DecayK))))

\* Time ranges are [from, to] of optional instants (integers); an absent bound
\* stands for -Infinity (from) or +Infinity (to).
timeRangesOverlapNeedsData(searchFrom, searchTo, materialFrom, materialTo) ==
    IF ~IsSome(searchFrom) /\ ~IsSome(searchTo) THEN TRUE
    ELSE IF ~IsSome(materialFrom) /\ ~IsSome(materialTo) THEN FALSE
    ELSE ~(\/ (IsSome(searchTo) /\ IsSome(materialFrom) /\ Val(searchTo) < Val(materialFrom))
           \/ (IsSome(materialTo) /\ IsSome(searchFrom) /\ Val(materialTo) < Val(searchFrom)))

timeRangesOverlap(searchFrom, searchTo, materialFrom, materialTo) ==
    IF ~IsSome(searchFrom) /\ ~IsSome(searchTo) THEN TRUE
    ELSE IF ~IsSome(materialFrom) /\ ~IsSome(materialTo) THEN TRUE
    ELSE ~( \/ (IsSome(searchTo) /\ IsSome(materialFrom) /\ Val(searchTo) < Val(materialFrom))
            \/ (IsSome(materialTo) /\ IsSome(searchFrom) /\ Val(materialTo) < Val(searchFrom)) )

availabilityScore(expected, match) ==
    IF ~IsSome(expected) \/ ~IsSome(match) THEN Undef
    ELSE LET e == Val(expected)
             m == Val(match)
         IN
         IF ~IsSome(e.from) /\ ~IsSome(e.to) THEN Undef
         ELSE IF ~IsSome(m.from) /\ ~IsSome(m.to) THEN Undef
         ELSE IF \/ (IsSome(e.to) /\ IsSome(m.from) /\ Val(e.to) < Val(m.from))
                 \/ (IsSome(m.to) /\ IsSome(e.from) /\ Val(m.to) < Val(e.from))
              THEN Zero
         ELSE LET startInf == ~IsSome(e.from) /\ ~IsSome(m.from)
                  endInf == ~IsSome(e.to) /\ ~IsSome(m.to)
                  overlapStart == IF ~IsSome(e.from) THEN Val(m.from)
                                  ELSE IF ~IsSome(m.from) THEN Val(e.from)
                                  ELSE IF Val(e.from) > Val(m.from) THEN Val(e.from)
                                  ELSE Val(m.from)
                  overlapEnd == IF ~IsSome(e.to) THEN Val(m.to)
                                ELSE IF ~IsSome(m.to) THEN Val(e.to)
                                ELSE IF Val(e.to) < Val(m.to) THEN Val(e.to)
                                ELSE Val(m.to)
                  overlapInf == startInf \/ endInf
                  searchOpen == ~IsSome(e.to) \/ ~IsSome(e.from)
              IN  IF overlapInf
                  THEN \* an infinite overlap needs an open search range, whose
                       \* duration is then the overlap: Infinity / Infinity
                       NaN
                  ELSE LET overlapDuration == overlapEnd - overlapStart
                           searchDuration == IF searchOpen THEN overlapDuration
                                             ELSE Val(e.to) - Val(e.from)
                       IN  IF searchDuration <= 0 THEN One
                           ELSE RMin(One, Rat(overlapDuration, searchDuration))

\* ------------------------------------------------- presence and weights
Fields == {"name", "description", "price", "quality", "location", "availability", "size"}

\* Weight vectors are functions on Fields (w_name, w_desc, ... in the source).
DEFAULT_WEIGHTS ==
    [f \in Fields |->
        CASE f = "name" -> <<1, 5>>
          [] f = "description" -> <<1, 5>>
          [] f = "price" -> <<3, 20>>
          [] f = "quality" -> <<3, 20>>
          [] f = "location" -> <<1, 10>>
          [] f = "availability" -> <<1, 10>>
          [] f = "size" -> <<1, 10>>]

\* String.prototype.trim on the strings of the model: "" and " " are blank.
Trim(s) == IF s = " " THEN "" ELSE s

QualityScale == 10

MinProvidedQuality == 5

isFieldProvidedWhenPresent(material) ==
    [f \in Fields |->
        CASE f = "name" -> IsSome(material.name)
          [] f = "description" -> IsSome(material.description)
          [] f = "price" -> IsSome(material.price)
          [] f = "quality" -> IsSome(material.quality)
          [] f = "location" -> IsSome(material.location)
          [] f = "availability" -> IsSome(material.availableTime)
          [] f = "size" -> IsSome(material.size)]

isFieldProvided(material) ==
    [f \in Fields |->
        CASE f = "name" -> IsSome(material.name) /\ Trim(Val(material.name)) # ""
          [] f = "description" ->
                IsSome(material.description) /\ Trim(Val(material.description)) # ""
          [] f = "price" -> IsSome(material.price) /\ Val(material.price) > 0
          [] f = "quality" ->
                IsSome(material.quality) /\ Val(material.quality) >= MinProvidedQuality
          [] f = "location" ->
                /\ IsSome(material.location)
                /\ (Val(material.location).latitude # 0 \/ Val(material.location).longitude # 0)
                \* |x| > 0.0001 degrees: any non-zero whole number of units
                /\ Abs(Val(material.location).latitude) > 0
                /\ Abs(Val(material.location).longitude) > 0
          [] f = "availability" ->
                /\ IsSome(material.availableTime)
                /\ (IsSome(Val(material.availableTime).from) \/ IsSome(Val(material.availableTime).to))
          [] f = "size" ->
                /\ IsSome(material.size)
                /\ \/ IsSome(Val(material.size).width)
                   \/ IsSome(Val(material.size).height)
                   \/ IsSome(Val(material.size).depth)]

FieldSeq == <<"name", "description", "price", "quality", "location", "availability", "size">>

RECURSIVE SumOver(_, _)
SumOver(w, fs) == IF fs = <<>> THEN Zero ELSE RAdd(w[Head(fs)], SumOver(w, Tail(fs)))

WeightSum(w) == SumOver(w, FieldSeq)

Renormalize(w) ==
    LET total == WeightSum(w)
    IN  IF RLt(Zero, total) THEN [f \in Fields |-> RDiv(w[f], total)] ELSE w

calculateActiveWeightsNoRenorm(material) ==
    LET provided == isFieldProvided(material)
    IN  [f \in Fields |-> IF provided[f] THEN DEFAULT_WEIGHTS[f] ELSE Zero]

calculateActiveWeights(material) ==
    LET provided == isFieldProvided(material)
        baseWeights == DEFAULT_WEIGHTS
        activeWeights == [f \in Fields |-> IF provided[f] THEN baseWeights[f] ELSE Zero]
    IN  Renormalize(activeWeights)

\* Explicit-weight variant: the caller's weights are integers 0..100.
WeightPercent == 100

normalizeWeights(weights) == [f \in Fields |-> Rat(weights[f], WeightPercent)]

resolveExplicitWeightsKeepName(weights) ==
    LET n == normalizeWeights(weights)
        total == SumOver(n, Tail(FieldSeq))
    IN  IF RLt(Zero, total)
        THEN [f \in Fields |-> IF f = "name" THEN n[f] ELSE RMul(n[f], RDiv(One, total))]
        ELSE n

\* retrieveSimilarMaterials (explicit variant), the weight resolution at its top
resolveExplicitWeights(weights) ==
    LET n == [normalizeWeights(weights) EXCEPT !["name"] = Zero]
        totalWeightWithoutName == SumOver(n, Tail(FieldSeq))
    IN  IF RLt(Zero, totalWeightWithoutName)
        THEN LET scale == RDiv(One, totalWeightWithoutName)
             IN  [f \in Fields |-> IF f = "name" THEN Zero ELSE RMul(n[f], scale)]
        ELSE n

HARD_CONSTRAINT_MIN_SCORE == <<4, 5>>

\* The constraint key of each field (SearchConstraints).
ConstraintKey(f) ==
    CASE f = "quality" -> "condition"
      [] f = "size" -> "dimensions"
      [] OTHER -> f

ThresholdFields == {"name", "description", "price", "quality", "size"}

passesHardConstraintsNoPrice(scoreBreakdown, constraints) ==
    IF ~IsSome(constraints) THEN TRUE
    ELSE \A f \in ThresholdFields \ {"price"} :
            ~(Val(constraints)[ConstraintKey(f)] = "hard"
              /\ JLt(scoreBreakdown[f], HARD_CONSTRAINT_MIN_SCORE))

passesHardConstraints(scoreBreakdown, constraints) ==
    IF ~IsSome(constraints) THEN TRUE
    ELSE \A f \in ThresholdFields :
            ~(Val(constraints)[ConstraintKey(f)] = "hard"
              /\ JLt(scoreBreakdown[f], HARD_CONSTRAINT_MIN_SCORE))

\* ------------------------------------------------------ retrieval, pure part
\* metadata?.x for an optional metadata record
MetaField(metadata, x) == IF IsSome(metadata) THEN Val(metadata)[x] ELSE None

\* options?.constraints?.[key] === "hard"
IsHard(constraints, key) == IsSome(constraints) /\ Val(constraints)[key] = "hard"

\* metadataMap and scoreMap of retrieveSimilarMaterials: the candidates in Map
\* insertion order (name hits first, then the hits only the description index
\* returned), each with its two similarity scores and the name hit's metadata.
HitIds(resp) == {resp[i].id : i \in DOMAIN resp}

HitOf(resp, id) == resp[CHOOSE i \in DOMAIN resp : resp[i].id = id]

AggregateNameHits(nameResponse, descResponse) ==
    [i \in DOMAIN nameResponse |->
        [materialId |-> nameResponse[i].id,
         nameScore |-> nameResponse[i].score,
         descScore |-> IF nameResponse[i].id \in HitIds(descResponse)
                       THEN HitOf(descResponse, nameResponse[i].id).score
                       ELSE Zero,
         metadata |-> Some(nameResponse[i].metadata)]]

Aggregate(nameResponse, descResponse) ==
    LET fromName == [i \in DOMAIN nameResponse |->
                        [materialId |-> nameResponse[i].id,
                         nameScore |-> nameResponse[i].score,
                         descScore |-> IF nameResponse[i].id \in HitIds(descResponse)
                                       THEN HitOf(descResponse, nameResponse[i].id).score
                                       ELSE Zero,
                         metadata |-> Some(nameResponse[i].metadata)]]
        descOnly == SelectSeq(descResponse, LAMBDA h : h.id \notin HitIds(nameResponse))
        fromDesc == [i \in DOMAIN descOnly |->
                        [materialId |-> descOnly[i].id,
                         nameScore |-> Zero,
                         descScore |-> descOnly[i].score,
                         metadata |-> None]]
    IN  fromName \o fromDesc

\* The two boolean filters at the top of the candidate loop.
PassesRadiusFilter(options, metadata) ==
    IF IsSome(options.location) /\ IsHard(options.constraints, "location")
    THEN isWithinRadius(Some([latitude |-> Val(options.location).latitude,
                              longitude |-> Val(options.location).longitude]),
                        MetaField(metadata, "location"),
                        Val(options.location).radiusKm)
    ELSE TRUE

PassesTimeFilter(options, metadata) ==
    IF IsSome(options.availableTime) /\ IsHard(options.constraints, "availability")
    THEN LET mt == MetaField(metadata, "availableTime")
         IN  timeRangesOverlap(Val(options.availableTime).from,
                               Val(options.availableTime).to,
                               IF IsSome(mt) THEN Val(mt).from ELSE None,
                               IF IsSome(mt) THEN Val(mt).to ELSE None)
    ELSE TRUE

QualityNum(o) == IF IsSome(o) THEN Rat(Val(o), QualityScale) ELSE Undef

\* The five structured scores of a candidate before "?? 0" (s_price ... s_size).
RawScores(material, metadata) ==
    [f \in Fields \ {"name", "description"} |->
        CASE f = "price" ->
                lowerIsBetterScore(NumOf(material.price), NumOf(MetaField(metadata, "price")))
          [] f = "quality" ->
                lowerIsBetterScore(QualityNum(MetaField(metadata, "quality")),
                                   QualityNum(material.quality))
          [] f = "location" -> distance(material.location, MetaField(metadata, "location"))
          [] f = "availability" ->
                availabilityScore(material.availableTime, MetaField(metadata, "availableTime"))
          [] f = "size" -> sizeScore(material.size, MetaField(metadata, "size"))]

BreakdownMissingAsOne(cand, s) ==
    [f \in Fields |->
        CASE f = "name" -> cand.nameScore
          [] f = "description" -> cand.descScore
          [] OTHER -> IF IsUndef(s[f]) THEN One ELSE s[f]]

Breakdown(cand, s) ==
    [f \in Fields |->
        CASE f = "name" -> cand.nameScore
          [] f = "description" -> cand.descScore
          [] OTHER -> OrZero(s[f])]

\* Adaptive variant (vectorStore.ts): the structured scores are computed only
\* for provided fields, and the combine runs over the defined ones.
AdaptiveScores(material, provided, metadata) ==
    LET raw == RawScores(material, metadata)
    IN  [f \in DOMAIN raw |-> IF provided[f] THEN raw[f] ELSE Undef]

AdaptiveComponentsDefaulted(cand, s, provided, weights) ==
    << [score |-> cand.nameScore, weight |-> weights["name"]],
       [score |-> cand.descScore, weight |-> weights["description"]] >>
    \o SelectSeq([i \in 1..5 |-> [score |-> OrZero(s[FieldSeq[i + 2]]),
                                  weight |-> weights[FieldSeq[i + 2]]]],
                 LAMBDA c : c.weight # Zero)

AdaptiveComponents(cand, s, provided, weights) ==
    << [score |-> cand.nameScore, weight |-> weights["name"]],
       [score |-> cand.descScore, weight |-> weights["description"]] >>
    \o SelectSeq([i \in 1..5 |-> [score |-> s[FieldSeq[i + 2]],
                                  weight |-> weights[FieldSeq[i + 2]]]],
                 LAMBDA c : ~IsUndef(c.score))

RECURSIVE WeightedSumButLast(_, _, _)
WeightedSumButLast(b, w, fs) ==
    IF fs = <<>> \/ Tail(fs) = <<>> THEN Zero
    ELSE JAdd(JMul(b[Head(fs)], w[Head(fs)]), WeightedSumButLast(b, w, Tail(fs)))

\* Explicit variant: s_combined is the plain weighted sum over all seven.
RECURSIVE WeightedSum(_, _, _)
WeightedSum(b, w, fs) ==
    IF fs = <<>> THEN Zero
    ELSE JAdd(JMul(b[Head(fs)], w[Head(fs)]), WeightedSum(b, w, Tail(fs)))

\* One iteration of the candidate loop: <<>> when the candidate is skipped,
\* <<match>> when it is pushed on queryMatches.
ScoreCandidate(kind, material, provided, weights, options, cand) ==
    IF ~PassesRadiusFilter(options, cand.metadata) THEN <<>>
    ELSE IF ~PassesTimeFilter(options, cand.metadata) THEN <<>>
    ELSE LET s == IF kind = "adaptive"
                  THEN AdaptiveScores(material, provided, cand.metadata)
                  ELSE RawScores(material, cand.metadata)
             scoreBreakdown == Breakdown(cand, s)
         IN  IF ~passesHardConstraints(scoreBreakdown, options.constraints) THEN <<>>
             ELSE << [materialId |-> cand.materialId,
                      score |-> IF kind = "adaptive"
                                THEN combinedScore(AdaptiveComponents(cand, s, provided, weights))
                                ELSE WeightedSum(scoreBreakdown, weights, FieldSeq),
                      scoreBreakdown |-> scoreBreakdown] >>

RECURSIVE QueryMatches(_, _, _, _, _, _)
QueryMatches(kind, material, provided, weights, options, cands) ==
    IF cands = <<>> THEN <<>>
    ELSE ScoreCandidate(kind, material, provided, weights, options, Head(cands))
         \o QueryMatches(kind, material, provided, weights, options, Tail(cands))

\* queryMatches.sort((a, b) => b.score - a.score).  The comparator returns NaN,
\* read as 0, whenever a score is NaN.  Array.prototype.sort is stable when the
\* comparator is consistent.  When it is not (a NaN score next to two different
\* numeric scores) the order is implementation-defined: the model allows every
\* ordering in which no element is directly followed by one the comparator
\* puts strictly before it, which is what an insertion or merge sort leaves.
Compare(a, b) ==
    IF IsNaN(a.score) \/ IsNaN(b.score) THEN 0
    ELSE IF RLt(b.score, a.score) THEN -1
    ELSE IF RLt(a.score, b.score) THEN 1
    ELSE 0

ConsistentComparator(ms) ==
    \A i, j, k \in DOMAIN ms :
        (Compare(ms[i], ms[j]) = 0 /\ Compare(ms[j], ms[k]) = 0) => Compare(ms[i], ms[k]) = 0

RECURSIVE InsertSorted(_, _)
InsertSorted(sorted, m) ==
    IF sorted = <<>> THEN <<m>>
    ELSE IF Compare(Head(sorted), m) > 0 THEN <<m>> \o sorted
    ELSE <<Head(sorted)>> \o InsertSorted(Tail(sorted), m)

RECURSIVE StableSort(_)
StableSort(ms) ==
    IF ms = <<>> THEN <<>>
    ELSE InsertSorted(StableSort(SubSeq(ms, 1, Len(ms) - 1)), ms[Len(ms)])

Orderings(ms) ==
    LET n == Len(ms)
        bij == {p \in [1..n -> 1..n] : \A i, j \in 1..n : p[i] = p[j] => i = j}
    IN  {[i \in 1..n |-> ms[p[i]]] : p \in bij}

AdjacentSorted(ms) == \A i \in 1..(Len(ms) - 1) : Compare(ms[i], ms[i + 1]) <= 0

SortOutcomes(ms) ==
    IF ConsistentComparator(ms) THEN {StableSort(ms)}
    ELSE {o \in Orderings(ms) : AdjacentSorted(o)}

\* Array.prototype.slice(0, topK): topK is a number <<n, d>> >= 1, truncated
\* to an integer by slice.
Trunc(x) == x[1] \div x[2]

Slice(ms, topK) ==
    SubSeq(ms, 1, IF Trunc(topK) < Len(ms) THEN Trunc(topK) ELSE Len(ms))

\* hasAnyScore / adjustedWeights at the end of the adaptive variant.
HasAnyScore(topMatches, f) ==
    \E i \in DOMAIN topMatches : JGt(topMatches[i].scoreBreakdown[f], Zero)

AdjustedWeightsUnadjusted(weights, topMatches) == weights

AdjustedWeights(weights, topMatches) ==
    Renormalize([f \in Fields |-> IF HasAnyScore(topMatches, f) THEN weights[f] ELSE Zero])

ResolvedWeights(kind, material, options) ==
    IF kind = "adaptive" THEN calculateActiveWeights(material)
    ELSE resolveExplicitWeights(options.weights)

\* Everything retrieveSimilarMaterials does after both index responses are in:
\* the set of results it can return.
RankedOutcomes(kind, topK, material, options, w, nameResp, descResp) ==
    LET provided == isFieldProvided(material)
        survivors == QueryMatches(kind, material, provided, w, options,
                                  Aggregate(nameResp, descResp))
    IN  { [matches |-> Slice(sorted, topK),
           weights |-> IF kind = "adaptive"
                       THEN AdjustedWeights(w, Slice(sorted, topK))
                       ELSE w,
           queryMatches |-> survivors]
          : sorted \in SortOutcomes(survivors) }

\* ------------------------------------------------------------ stored data

Dims(w, h, d) == [width |-> w, height |-> h, depth |-> d]

Loc(lat, lon) == [latitude |-> lat, longitude |-> lon]

Range(from, to) == [from |-> from, to |-> to]

\* The stored materials (MaterialWithId), one per identifier.  Material 1 is
\* cheap, new and about 3 km from the query site; material 2 is dear, worn,
\* about 8 km away and available from instant 2 on; material 3 carries no
\* structured data at all; any further one matches the query's data, except
\* that it was available only up to instant 0.
StoredMaterial(id) ==
    CASE id = 1 -> [id |-> id, price |-> Some(50), quality |-> Some(10),
                    size |-> Some(Dims(Some(100), None, None)),
                    location |-> Some(Loc(5203, 900)),
                    availableTime |-> Some(Range(Some(1), Some(2)))]
      [] id = 2 -> [id |-> id, price |-> Some(150), quality |-> Some(5),
                    size |-> Some(Dims(Some(200), None, None)),
                    location |-> Some(Loc(5208, 900)),
                    availableTime |-> Some(Range(Some(2), None))]
      [] id = 3 -> [id |-> id, price |-> None, quality |-> None, size |-> None,
                    location |-> None, availableTime |-> None]
      [] OTHER -> [id |-> id, price |-> Some(100), quality |-> Some(8),
                   size |-> Some(Dims(Some(100), Some(50), None)),
                   location |-> Some(Loc(5200, 900)),
                   availableTime |-> Some(Range(None, Some(0)))]

\* "x && {x}" keeps a dimension or bound only when it is truthy.
KeepTruthy(o) == IF IsSome(o) /\ Truthy(Val(o)) THEN o ELSE None

buildMetadata(material) ==
    [quality |-> material.quality,
     price |-> material.price,
     location |-> material.location,
     size |-> IF IsSome(material.size)
              THEN Some(Dims(KeepTruthy(Val(material.size).width),
                             KeepTruthy(Val(material.size).height),
                             KeepTruthy(Val(material.size).depth)))
              ELSE None,
     availableTime |-> IF IsSome(material.availableTime)
                       THEN Some(Range(Val(material.availableTime).from,
                                       Val(material.availableTime).to))
                       ELSE None]

\* ------------------------------------------------------- index responses
\* The hit lists of length n over the identifiers ids: distinct identifiers,
\* nearest first, equally near ones by identifier; an index reports the
\* cosine similarities 0.3 and 0.9.
HitListsOn(ids, n) ==
    { h \in [1..n -> [id : ids, score : {<<3, 10>>, <<9, 10>>}]] :
        /\ \A i, j \in 1..n : h[i].id = h[j].id => i = j
        /\ \A i \in 1..(n - 1) :
              \/ RLt(h[i + 1].score, h[i].score)
              \/ (h[i + 1].score = h[i].score /\ h[i].id < h[i + 1].id) }

\* A k-NN response: at most topK hits (and at most MaxHits in this model).
HitLists(topK) ==
    LET maxLen == IF Trunc(topK) < MaxHits THEN Trunc(topK) ELSE MaxHits
    IN  UNION { HitListsOn(1..NumMaterials, n) : n \in 0..maxLen }

\* returnMetadata: "all" attaches the metadata stored with each vector.
WithMetadata(h) ==
    [i \in DOMAIN h |-> [id |-> h[i].id, score |-> h[i].score,
                         metadata |-> buildMetadata(StoredMaterial(h[i].id))]]

\* VECTORIZE_NAME.query(..., returnMetadata: "all")
NameResponses(topK) == { WithMetadata(h) : h \in HitLists(topK) }

\* VECTORIZE_DESC.query(..., returnMetadata: "none")
DescResponses(topK) == HitLists(topK)

\* ------------------------------------------------------------- requests
\* Query materials (MaterialWithoutId) the model sends.
QueryFull ==
    [name |-> Some("beam"), description |-> Some("steel beam"),
     price |-> Some(100), quality |-> Some(10),
     size |-> Some(Dims(Some(100), None, None)),
     location |-> Some(Loc(5200, 900)),
     availableTime |-> Some(Range(Some(1), Some(3)))]

QueryOpen == [QueryFull EXCEPT !.availableTime = Some(Range(Some(1), None))]

QueryText ==
    [name |-> Some("beam"), description |-> Some("steel beam"),
     price |-> None, quality |-> None, size |-> None, location |-> None,
     availableTime |-> None]

ConstraintKeys ==
    {"name", "description", "price", "condition", "location", "dimensions", "availability"}

\* searchConstraintsSchema: every key defaults to "soft".
OnlyHard(keys) == Some([k \in ConstraintKeys |-> IF k \in keys THEN "hard" ELSE "soft"])

\* Caller weights of the explicit variant, 0..100 per field.
Pct(n, d, p, q, l, a, z) ==
    [f \in Fields |->
        CASE f = "name" -> n [] f = "description" -> d [] f = "price" -> p
          [] f = "quality" -> q [] f = "location" -> l [] f = "availability" -> a
          [] f = "size" -> z]

Req(m, k, c, l, t, w) ==
    [material |-> m, topK |-> k, constraints |-> c, location |-> l,
     availableTime |-> t, weights |-> w]

\* The request the others are variations of: topK is a number <<n, d>>.
BaseRequest ==
    Req(QueryFull, Some(<<2, 1>>), None, None, None, Pct(20, 20, 15, 15, 10, 10, 10))

\* A search with constraints, a search area and a search window.
Constrained(req, c) ==
    [req EXCEPT !.constraints = c,
                !.location = Some([latitude |-> 5200, longitude |-> 900, radiusKm |-> 5]),
                !.availableTime = Some(Range(Some(1), Some(3)))]

ValidRequests ==
    {BaseRequest}
    \cup {Constrained(BaseRequest, c) :
             c \in {None} \cup {OnlyHard({k}) : k \in ConstraintKeys}}
    \cup {[BaseRequest EXCEPT !.material = m] :
             m \in {QueryOpen, QueryText,
                    [QueryText EXCEPT !.name = Some(" "), !.description = None]}}
    \cup {[BaseRequest EXCEPT !.topK = k] : k \in {None, Some(<<1, 1>>), Some(<<5, 2>>)}}
    \cup {[BaseRequest EXCEPT !.weights = w] :
             w \in {Pct(100, 0, 0, 0, 0, 0, 0), Pct(40, 50, 50, 0, 0, 0, 0),
                    Pct(20, 20, 15, 15, 10, 10, 10)}}
    \cup {[Constrained(BaseRequest, OnlyHard({"price"})) EXCEPT !.material = QueryText],
          [BaseRequest EXCEPT !.material = QueryOpen, !.weights = Pct(0, 50, 50, 0, 0, 0, 0)],
          [BaseRequest EXCEPT !.material = QueryOpen, !.topK = Some(<<3, 1>>)],
          \* a search centre on the equator, on the meridian of the stored materials
          [Constrained(BaseRequest, OnlyHard({"location"}))
              EXCEPT !.location = Some([latitude |-> 0, longitude |-> 900, radiusKm |-> 5])],
          [Constrained(BaseRequest, OnlyHard({"location"})) EXCEPT !.material = QueryText],
          \* a query material carrying only structural defaults beside its texts
          [BaseRequest EXCEPT !.material =
              [QueryFull EXCEPT !.price = Some(0), !.quality = None,
                                !.location = Some(Loc(0, 0)),
                                !.availableTime = Some(Range(None, None)),
                                !.size = Some(Dims(None, None, None))]],
          \* a size constraint on a query whose size names no dimension
          [Constrained(BaseRequest, OnlyHard({"dimensions"}))
              EXCEPT !.material = [QueryFull EXCEPT !.size = Some(Dims(None, None, None))]],
          \* a search range open to the right, and one with neither bound
          [Constrained(BaseRequest, OnlyHard({"availability"}))
              EXCEPT !.availableTime = Some(Range(Some(3), None))],
          [Constrained(BaseRequest, OnlyHard({"availability"}))
              EXCEPT !.availableTime = Some(Range(None, None))]}

InvalidRequests ==
    { [BaseRequest EXCEPT !.topK = Some(<<0, 1>>)],
      [BaseRequest EXCEPT !.topK = Some(<<11, 1>>)],
      [BaseRequest EXCEPT !.topK = Some(<<1, 2>>)],
      [BaseRequest EXCEPT !.material.price = Some(-1)],
      [BaseRequest EXCEPT !.material.quality = Some(3)],
      [BaseRequest EXCEPT !.material.quality = Some(11)],
      [BaseRequest EXCEPT !.material.name = None],
      [BaseRequest EXCEPT !.material.size = Some(Dims(Some(0), None, None))],
      [BaseRequest EXCEPT !.location = Some([latitude |-> 5200, longitude |-> 900,
                                              radiusKm |-> 0])] }

Requests == ValidRequests \cup InvalidRequests

\* ---------------------------------------------------- request validation
TopKMin == 1

TopKMax == 10

TopKDefault == 5

MinQuality == 5

MaxQuality == 10

PositiveOrAbsent(o) == ~IsSome(o) \/ Val(o) > 0

\* materialWithoutIdSchema.omit({ image: true })
ValidMaterial(m) ==
    /\ IsSome(m.name)
    /\ (IsSome(m.price) => Val(m.price) >= 0)
    /\ (IsSome(m.quality) => (Val(m.quality) >= MinQuality /\ Val(m.quality) <= MaxQuality))
    /\ (IsSome(m.size) => /\ PositiveOrAbsent(Val(m.size).width)
                          /\ PositiveOrAbsent(Val(m.size).height)
                          /\ PositiveOrAbsent(Val(m.size).depth))

\* z.number().min(1).max(10).default(5)
ValidTopK(k) ==
    ~IsSome(k) \/ (RLe(Num(TopKMin), Val(k)) /\ RLe(Val(k), Num(TopKMax)))

SchemaAcceptsTopKOnly(req) == ValidTopK(req.topK)

\* retrieveSimilarMaterialsRequestSchema.safeParse(payload).success
SchemaAccepts(req) ==
    /\ ValidMaterial(req.material)
    /\ ValidTopK(req.topK)
    /\ (IsSome(req.location) => Val(req.location).radiusKm > 0)

\* parsedPayload.data: the defaults filled in
Parsed(req) == [req EXCEPT !.topK = IF IsSome(req.topK) THEN req.topK
                                    ELSE Some(Num(TopKDefault))]

\* ------------------------------------------- POST /v1/materials/retrieve
\* One request travels through service.fetch.  variant says which of the two
\* versions of retrieveSimilarMaterials serves it: "adaptive" (vectorStore.ts,
\* presence-based weights) or "explicit" (caller-supplied weights).
VARIABLES
    variant,        \* "adaptive" | "explicit"
    caller,         \* "noToken" | "noAccess" | "granted"
    request,        \* the request body
    pc,             \* where the handler stands
    weights,        \* the resolved weights (weights / normalizedWeights), once computed
    embedding,      \* materialsToFieldEmbeddings: "idle" | "inflight" | "done" | "failed"
    nameQuery,      \* VECTORIZE_NAME.query: "idle" | "inflight" | "done" | "failed"
    descQuery,      \* VECTORIZE_DESC.query: likewise
    nameResponse,   \* its matches, once done
    descResponse,
    queryMatches,   \* the candidates that passed every filter, in loop order
    result,         \* what retrieveSimilarMaterials returned: <<>> or <<[matches, weights]>>
    response,       \* the HTTP response: <<>> or <<[status, materials, weights]>>
    embeddingCalls, \* how many embedding calls were made
    indexQueries,   \* how many index queries were issued
    recordReads,    \* identifiers whose material record was read from DATA_KV
    missingRecords, \* those of them for which DATA_KV.get returned null
    probe,          \* the arguments of a scorer applied on its own: <<>> or <<args>>
    outcome,        \* what that scorer returned: <<>> or <<value>>
    DATA_KV,        \* env.DATA_KV: the accounts and the material records, by key
    VECTORIZE,      \* env.VECTORIZE_EBKP / _NAME / _DESC: the entries of each index
    calls           \* the requests received so far, each with its handler's position

vars == <<variant, caller, request, pc, weights, embedding, nameQuery, descQuery, nameResponse,
          descResponse, queryMatches, result, response, embeddingCalls, indexQueries,
          recordReads, missingRecords, probe, outcome, DATA_KV, VECTORIZE, calls>>

Variants == {"adaptive", "explicit"}

Init ==
    /\ variant \in Variants
    /\ caller \in {"noToken", "noAccess", "granted"}
    /\ request \in Requests
    \* the adaptive variant never reads the caller's weights
    /\ (variant = "adaptive" => request.weights = BaseRequest.weights)
    /\ (caller # "granted" => request = BaseRequest)
    /\ pc = "start"
    /\ weights = <<>>
    /\ embedding = "idle"
    /\ nameQuery = "idle"
    /\ descQuery = "idle"
    /\ nameResponse = <<>>
    /\ descResponse = <<>>
    /\ queryMatches = <<>>
    /\ result = <<>>
    /\ response = <<>>
    /\ embeddingCalls = 0
    /\ indexQueries = 0
    /\ recordReads = {}
    /\ missingRecords = {}
    /\ DATA_KV = <<>>
    /\ VECTORIZE = <<>>
    /\ calls = <<>>
    /\ probe = <<>>
    /\ outcome = <<>>

Respond(status, materials, w) ==
    response' = <<[status |-> status, materials |-> materials, weights |-> w]>>

\* authenticateToken and the account check at the top of service.fetch
Authenticate ==
    /\ pc = "start"
    /\ IF caller = "noToken" THEN pc' = "done" /\ Respond(401, <<>>, <<>>)
       ELSE IF caller = "noAccess" THEN pc' = "done" /\ Respond(403, <<>>, <<>>)
       ELSE pc' = "body" /\ UNCHANGED response
    /\ UNCHANGED <<DATA_KV, VECTORIZE, calls,
                   probe, outcome, missingRecords, variant, caller, weights, request, embedding, nameQuery, descQuery, nameResponse,
                   descResponse, queryMatches, result, embeddingCalls, indexQueries,
                   recordReads>>

\* case "POST /retrieve": safeParse, then either the 400 response or the call
\* of retrieveSimilarMaterials up to its first await (the embedding call).
Validate ==
    /\ pc = "body"
    /\ IF ~SchemaAccepts(request)
       THEN /\ pc' = "done"
            /\ Respond(400, <<>>, <<>>)
            /\ UNCHANGED <<request, weights, embedding, embeddingCalls>>
       ELSE /\ request' = Parsed(request)
            /\ weights' = ResolvedWeights(variant, request.material, request)
            /\ pc' = "retrieving"
            /\ embedding' = "inflight"
            /\ embeddingCalls' = embeddingCalls + 1
            /\ UNCHANGED response
    /\ UNCHANGED <<DATA_KV, VECTORIZE, calls,
                   probe, outcome, missingRecords, variant, caller, nameQuery, descQuery, nameResponse, descResponse,
                   queryMatches, result, indexQueries, recordReads>>

\* The embedding arrives; Promise.all([...]) issues both index queries at once.
EmbeddingDone ==
    /\ pc = "retrieving"
    /\ embedding = "inflight"
    /\ embedding' = "done"
    /\ nameQuery' = "inflight"
    /\ descQuery' = "inflight"
    /\ indexQueries' = indexQueries + 2
    /\ UNCHANGED <<DATA_KV, VECTORIZE, calls,
                   probe, outcome, missingRecords, variant, caller, weights, request, pc, nameResponse, descResponse, queryMatches,
                   result, response, embeddingCalls, recordReads>>

\* The embedding call rejects.
EmbeddingFails ==
    /\ pc = "retrieving"
    /\ embedding = "inflight"
    /\ embedding' = "failed"
    /\ UNCHANGED <<DATA_KV, VECTORIZE, calls,
                   probe, outcome, missingRecords, variant, caller, weights, request, pc, nameQuery, descQuery, nameResponse,
                   descResponse, queryMatches, result, response, embeddingCalls,
                   indexQueries, recordReads>>

NameQueryDone ==
    /\ nameQuery = "inflight"
    /\ \E r \in NameResponses(Val(request.topK)) : nameResponse' = r
    /\ nameQuery' = "done"
    /\ UNCHANGED <<DATA_KV, VECTORIZE, calls,
                   probe, outcome, missingRecords, variant, caller, weights, request, pc, embedding, descQuery, descResponse,
                   queryMatches, result, response, embeddingCalls, indexQueries,
                   recordReads>>

DescQueryDone ==
    /\ descQuery = "inflight"
    /\ \E r \in DescResponses(Val(request.topK)) : descResponse' = r
    /\ descQuery' = "done"
    /\ UNCHANGED <<DATA_KV, VECTORIZE, calls,
                   probe, outcome, missingRecords, variant, caller, weights, request, pc, embedding, nameQuery, nameResponse,
                   queryMatches, result, response, embeddingCalls, indexQueries,
                   recordReads>>

\* An index query rejects, whatever the state of the other one.
NameQueryFails ==
    /\ nameQuery = "inflight"
    /\ nameQuery' = "failed"
    /\ UNCHANGED <<DATA_KV, VECTORIZE, calls,
                   probe, outcome, missingRecords, variant, caller, weights, request, pc, embedding, descQuery, nameResponse,
                   descResponse, queryMatches, result, response, embeddingCalls,
                   indexQueries, recordReads>>

DescQueryFails ==
    /\ descQuery = "inflight"
    /\ descQuery' = "failed"
    /\ UNCHANGED <<DATA_KV, VECTORIZE, calls,
                   probe, outcome, missingRecords, variant, caller, weights, request, pc, embedding, nameQuery, nameResponse,
                   descResponse, queryMatches, result, response, embeddingCalls,
                   indexQueries, recordReads>>

\* The awaited promise (the embedding, or Promise.all of the two queries) has
\* rejected: the await rethrows, retrieveSimilarMaterials rejects and nothing
\* in service.fetch catches it.
RetrievalThrows ==
    /\ pc = "retrieving"
    /\ embedding = "failed" \/ nameQuery = "failed" \/ descQuery = "failed"
    /\ pc' = "threw"
    /\ UNCHANGED <<DATA_KV, VECTORIZE, calls,
                   probe, outcome, missingRecords, variant, caller, weights, request, embedding, nameQuery, descQuery, nameResponse,
                   descResponse, queryMatches, result, response, embeddingCalls,
                   indexQueries, recordReads>>

JoinedSettled == nameQuery \in {"done", "failed"} /\ descQuery \in {"done", "failed"}

JoinedOneOnly == nameQuery = "done"

\* Promise.all resolves only when both queries have.
Joined == nameQuery = "done" /\ descQuery = "done"

\* The rest of retrieveSimilarMaterials: aggregate, filter, score, sort, slice,
\* report the weights.
Rank ==
    /\ pc = "retrieving"
    /\ Joined
    /\ \E o \in RankedOutcomes(variant, Val(request.topK), request.material, request,
                               weights, nameResponse, descResponse) :
          /\ result' = <<[matches |-> o.matches, weights |-> o.weights]>>
          /\ queryMatches' = o.queryMatches
    /\ pc' = "ranked"
    /\ UNCHANGED <<DATA_KV, VECTORIZE, calls,
                   probe, outcome, missingRecords, variant, caller, weights, request, embedding, nameQuery, descQuery, nameResponse,
                   descResponse, response, embeddingCalls, indexQueries, recordReads>>

\* The record of every match is read from DATA_KV; a match whose record is
\* gone (get returns null) is filtered out, the others are annotated with the
\* match's score and scoreBreakdown, in the order of the matches; 200.
ReadRecords ==
    /\ pc = "ranked"
    /\ LET matches == Val(result).matches
           ids == {matches[i].materialId : i \in DOMAIN matches}
       IN  \E gone \in SUBSET ids :
              /\ recordReads' = ids
              /\ missingRecords' = gone
              /\ Respond(200,
                         SelectSeq([i \in DOMAIN matches |->
                                       [id |-> matches[i].materialId,
                                        score |-> matches[i].score,
                                        scoreBreakdown |-> matches[i].scoreBreakdown]],
                                   LAMBDA m : m.id \notin gone),
                         Val(result).weights)
    /\ pc' = "done"
    /\ UNCHANGED <<DATA_KV, VECTORIZE, calls,
                   probe, outcome, variant, caller, weights, request, embedding, nameQuery, descQuery,
                   nameResponse, descResponse, queryMatches, result, embeddingCalls,
                   indexQueries>>

Next ==
    \/ Authenticate
    \/ Validate
    \/ EmbeddingDone
    \/ EmbeddingFails
    \/ NameQueryDone
    \/ DescQueryDone
    \/ NameQueryFails
    \/ DescQueryFails
    \/ RetrievalThrows
    \/ Rank
    \/ ReadRecords

Spec == Init /\ [][Next]_vars

\* ----------------------------------------------- weight resolution alone
\* Caller weights on the 0..100 scale the explicit variant is probed with.
ProbePercents == {0, 30, 100}

\* The weight resolution of retrieveSimilarMaterials over a wide range of
\* queries (adaptive variant) and caller weights (explicit variant): the step
\* Validate, from every such request.

InitWeights ==
    /\ variant \in Variants
    /\ caller = "granted"
    /\ IF variant = "adaptive"
       THEN request \in
              {[BaseRequest EXCEPT !.material = m] : m \in
                { [name |-> Some(n), description |-> d, price |-> p, quality |-> q, size |-> z,
                   location |-> l, availableTime |-> t]
                  : n \in {"beam", " "},
                    d \in {None, Some("steel beam")},
                    p \in {None, Some(0), Some(100)},
                    q \in {None, Some(10)},
                    z \in {None, Some(Dims(Some(100), None, None))},
                    l \in {None, Some(Loc(0, 0)), Some(Loc(5200, 900))},
                    t \in {None, Some(Range(None, None)), Some(Range(Some(1), None))} }}
       ELSE request \in {[BaseRequest EXCEPT !.weights = w] : w \in [Fields -> ProbePercents]}
    /\ pc = "body"
    /\ weights = <<>>
    /\ embedding = "idle"
    /\ nameQuery = "idle"
    /\ descQuery = "idle"
    /\ nameResponse = <<>>
    /\ descResponse = <<>>
    /\ queryMatches = <<>>
    /\ result = <<>>
    /\ response = <<>>
    /\ embeddingCalls = 0
    /\ indexQueries = 0
    /\ recordReads = {}
    /\ missingRecords = {}
    /\ DATA_KV = <<>>
    /\ VECTORIZE = <<>>
    /\ calls = <<>>
    /\ probe = <<>>
    /\ outcome = <<>>

NextWeights == Validate

SpecWeights == InitWeights /\ [][NextWeights]_vars

\* ------------------------------------------------ the scorers on their own
\* combinedScore, the price and quality entries of a candidate's
\* scoreBreakdown, and availabilityScore, each applied once to arguments
\* drawn from the sets below.
MaxPairs == 3

MaxInstant == 3

InitScorers ==
    /\ variant \in Variants
    /\ caller = "granted"
    /\ request = BaseRequest
    /\ pc = "body"
    /\ weights = <<>>
    /\ embedding = "idle"
    /\ nameQuery = "idle"
    /\ descQuery = "idle"
    /\ nameResponse = <<>>
    /\ descResponse = <<>>
    /\ queryMatches = <<>>
    /\ result = <<>>
    /\ response = <<>>
    /\ embeddingCalls = 0
    /\ indexQueries = 0
    /\ recordReads = {}
    /\ missingRecords = {}
    /\ DATA_KV = <<>>
    /\ VECTORIZE = <<>>
    /\ calls = <<>>
    /\ LET \* Argument lists of combinedScore: scores undefined, 0 or 1; weights
           \* 0, 1/2, 3/10 or 10001/20000 (the last with 1/2 sums to 1.00005,
           \* within the tolerance of 1 without being 1).
           ScoreLists ==
               UNION { [1..n -> [score : {Undef, Zero, One},
                                 weight : {Zero, <<1, 2>>, <<3, 10>>, <<10001, 20000>>}]]
                       : n \in 0..MaxPairs }
           \* Query price and quality as the request schema admits them,
           \* against metadata as buildMetadata stores it: a price of 0 or
           \* more, a quality of 0 to 1 (an imported inventory is not held to
           \* the 0.5 minimum), or none.
           QueryPrices == {None, Some(0), Some(100), Some(150)}
           QueryQualities == {None, Some(5), Some(8), Some(10)}
           StoredPrices == {None, Some(0), Some(50), Some(100), Some(150)}
           StoredQualities == {None, Some(0), Some(3), Some(5), Some(8), Some(10)}
           Stored ==
               {None} \cup
               { Some([buildMetadata(StoredMaterial(3)) EXCEPT !.price = sp, !.quality = sq])
                 : sp \in StoredPrices, sq \in StoredQualities }
           \* AvailableTime values: absent, or a range whose bounds are absent
           \* or instants 0..MaxInstant, from not after to.
           Bounds == {None} \cup {Some(i) : i \in 0..MaxInstant}
           RangeChoices ==
               {None} \cup
               { Some(Range(b[1], b[2])) : b \in { c \in Bounds \X Bounds :
                     (IsSome(c[1]) /\ IsSome(c[2])) => Val(c[1]) <= Val(c[2]) } }
       IN  probe \in
             { <<[fn |-> "combinedScore", scores |-> l]>> : l \in ScoreLists }
             \cup { <<[fn |-> "scoreBreakdown",
                       material |-> [QueryText EXCEPT !.price = p, !.quality = q],
                       cand |-> [materialId |-> 1, nameScore |-> One, descScore |-> One,
                                 metadata |-> md]]>>
                    : p \in QueryPrices, q \in QueryQualities, md \in Stored }
             \cup { <<[fn |-> "availabilityScore", expected |-> e, match |-> m]>>
                    : e \in RangeChoices, m \in RangeChoices }
    /\ outcome = <<>>

ApplyCombinedScore ==
    /\ outcome = <<>>
    /\ Val(probe).fn = "combinedScore"
    /\ outcome' = <<combinedScore(Val(probe).scores)>>
    /\ UNCHANGED <<DATA_KV, VECTORIZE, calls,
                   probe, missingRecords, variant, caller, request, pc, weights, embedding,
                   nameQuery, descQuery, nameResponse, descResponse, queryMatches, result,
                   response, embeddingCalls, indexQueries, recordReads>>

\* The scoreBreakdown the candidate loop builds for one candidate.
ApplyScoreBreakdown ==
    /\ outcome = <<>>
    /\ Val(probe).fn = "scoreBreakdown"
    /\ LET material == Val(probe).material
           cand == Val(probe).cand
           s == IF variant = "adaptive"
                THEN AdaptiveScores(material, isFieldProvided(material), cand.metadata)
                ELSE RawScores(material, cand.metadata)
       IN  outcome' = <<Breakdown(cand, s)>>
    /\ UNCHANGED <<DATA_KV, VECTORIZE, calls,
                   probe, missingRecords, variant, caller, request, pc, weights, embedding,
                   nameQuery, descQuery, nameResponse, descResponse, queryMatches, result,
                   response, embeddingCalls, indexQueries, recordReads>>

ApplyAvailabilityScore ==
    /\ outcome = <<>>
    /\ Val(probe).fn = "availabilityScore"
    /\ outcome' = <<availabilityScore(Val(probe).expected, Val(probe).match)>>
    /\ UNCHANGED <<DATA_KV, VECTORIZE, calls,
                   probe, missingRecords, variant, caller, request, pc, weights, embedding,
                   nameQuery, descQuery, nameResponse, descResponse, queryMatches, result,
                   response, embeddingCalls, indexQueries, recordReads>>

NextScorers == ApplyCombinedScore \/ ApplyScoreBreakdown \/ ApplyAvailabilityScore

SpecScorers == InitScorers /\ [][NextScorers]_vars

\* ================================================================ claims
EightyPercent == <<4, 5>>

Candidates == Aggregate(nameResponse, descResponse)

\* The score breakdown the loop builds for a candidate, before any filter.
CandidateBreakdown(cand) ==
    Breakdown(cand, IF variant = "adaptive"
                    THEN AdaptiveScores(request.material,
                                        isFieldProvided(request.material), cand.metadata)
                    ELSE RawScores(request.material, cand.metadata))

MatchIds == {Val(result).matches[i].materialId : i \in DOMAIN Val(result).matches}

\* C1: under a "hard" constraint on name, description, price, quality
\* (key condition) or size (key dimensions), every returned match scores at
\* least 0.8 on that field, and no candidate scoring below 0.8 on it is among
\* the matches.
C1_HardThreshold ==
    result # <<>> =>
        \A f \in ThresholdFields :
            IsHard(request.constraints, ConstraintKey(f)) =>
                /\ \A i \in DOMAIN Val(result).matches :
                      LET x == Val(result).matches[i].scoreBreakdown[f]
                      IN  ~IsNaN(x) /\ RLe(EightyPercent, x)
                /\ \A i \in DOMAIN Candidates :
                      JLt(CandidateBreakdown(Candidates[i])[f], EightyPercent)
                          => Candidates[i].materialId \notin MatchIds

\* A price-hard search returned a match although another candidate, with the
\* better name similarity, scored below 0.8 on price.
C1_Witness ==
    /\ result # <<>>
    /\ IsHard(request.constraints, "price")
    /\ Len(Val(result).matches) > 0
    /\ \E i \in DOMAIN Candidates :
          /\ JLt(CandidateBreakdown(Candidates[i])["price"], EightyPercent)
          /\ RLt(Zero, CandidateBreakdown(Candidates[i])["price"])
          /\ \A j \in DOMAIN Val(result).matches :
                RLt(Val(result).matches[j].scoreBreakdown["name"], Candidates[i].nameScore)

Provided == isFieldProvided(request.material)

PresentDefaultTotal ==
    SumOver([f \in Fields |-> IF Provided[f] THEN DEFAULT_WEIGHTS[f] ELSE Zero], FieldSeq)

\* C3: in adaptive mode every absent field has weight 0 and every present
\* field its default weight divided by the sum of the present fields'
\* defaults; the weights sum to 1 when a field is present and are all 0
\* otherwise; a name+description-only query gets name + description = 1.
C3_AdaptiveWeights ==
    (variant = "adaptive" /\ weights # <<>>) =>
        /\ \A f \in Fields :
              IF Provided[f]
              THEN weights[f] = RDiv(DEFAULT_WEIGHTS[f], PresentDefaultTotal)
              ELSE weights[f] = Zero
        /\ IF \E f \in Fields : Provided[f]
           THEN WeightSum(weights) = One
           ELSE \A f \in Fields : weights[f] = Zero
        /\ ({f \in Fields : Provided[f]} = {"name", "description"}
              => RAdd(weights["name"], weights["description"]) = One)

C3_Witness ==
    /\ variant = "adaptive"
    /\ weights # <<>>
    /\ {f \in Fields : Provided[f]} = {"name", "description"}
    /\ weights["name"] = <<1, 2>>
    /\ weights["price"] = Zero

SixSum(w) == w["description"] + w["price"] + w["quality"] + w["location"]
             + w["availability"] + w["size"]

\* C5: in explicit mode the name weight is 0 and each other weight is the
\* caller's weight divided by the sum of the caller's six non-name weights
\* (so they sum to 1), or all are 0 when that sum is 0; w_name has no effect.
C5_ExplicitWeights ==
    (variant = "explicit" /\ weights # <<>>) =>
        /\ weights["name"] = Zero
        /\ IF SixSum(request.weights) > 0
           THEN /\ \A f \in Fields \ {"name"} :
                      weights[f] = Rat(request.weights[f], SixSum(request.weights))
                /\ WeightSum(weights) = One
           ELSE \A f \in Fields : weights[f] = Zero
        /\ \A n \in ProbePercents :
              resolveExplicitWeights([request.weights EXCEPT !["name"] = n]) = weights

C5_Witness ==
    /\ variant = "explicit"
    /\ weights # <<>>
    /\ request.weights["name"] = 100
    /\ request.weights["price"] = 30
    /\ request.weights["size"] = 100
    /\ weights["price"] = <<3, 13>>

Ranking(ms) == [i \in DOMAIN ms |-> <<ms[i].materialId, ms[i].score>>]

ScoreById(ms) == {<<ms[i].materialId, ms[i].score>> : i \in DOMAIN ms}

\* C2: the returned list has exactly min(topK, survivors) entries, no entry
\* is followed by one with a strictly greater combined score, and no survivor
\* left out has a strictly greater combined score than a returned one.
C2_TopKSorted ==
    result # <<>> =>
        LET ms == Val(result).matches
            left == {i \in DOMAIN queryMatches :
                        queryMatches[i].materialId \notin MatchIds}
        IN  /\ Num(Len(ms)) = RMin(Val(request.topK), Num(Len(queryMatches)))
            /\ \A i, j \in DOMAIN ms : i < j => ~JLt(ms[i].score, ms[j].score)
            /\ \A q \in left : \A i \in DOMAIN ms : ~JLt(ms[i].score, queryMatches[q].score)

\* The resolved weights with every field zeroed on which none of ms scores
\* above 0, renormalised.
ZeroedRenormalised(w, ms) ==
    LET z == [f \in Fields |->
                 IF \E i \in DOMAIN ms : JLt(Zero, ms[i].scoreBreakdown[f])
                 THEN w[f] ELSE Zero]
        total == SumOver(z, FieldSeq)
    IN  IF total = Zero THEN z ELSE [f \in Fields |-> RDiv(z[f], total)]

\* C4 as claimed: in both variants the returned weights are the resolved ones,
\* zeroed on the fields where no surviving candidate scores above 0 and
\* renormalised.
C4_ReportedOverSurvivors ==
    result # <<>> => Val(result).weights = ZeroedRenormalised(weights, queryMatches)

\* C4 as amended: the adaptive variant zeroes the fields on which no returned
\* match (the top-K slice, not every survivor) scores above 0 and
\* renormalises; the explicit variant returns the ranking weights unchanged;
\* either way the returned weights sum to 1 or are all 0.
C4_ReportedWeights ==
    result # <<>> =>
        /\ IF variant = "adaptive"
           THEN Val(result).weights = ZeroedRenormalised(weights, Val(result).matches)
           ELSE Val(result).weights = weights
        /\ \/ WeightSum(Val(result).weights) = One
           \/ \A f \in Fields : Val(result).weights[f] = Zero

\* An adaptive retrieval dropped the price weight although a survivor that
\* the slice left out scores above 0 on price.
C4_Witness ==
    /\ result # <<>>
    /\ variant = "adaptive"
    /\ RLt(Zero, weights["price"])
    /\ Val(result).weights["price"] = Zero
    /\ WeightSum(Val(result).weights) = One
    /\ \E i \in DOMAIN queryMatches :
          /\ queryMatches[i].materialId \notin MatchIds
          /\ JLt(Zero, queryMatches[i].scoreBreakdown["price"])

\* The name-index responses that differ from the actual one only in the
\* similarity scores of its hits.
AltNameResponses ==
    { WithMetadata(h) : h \in HitListsOn(HitIds(nameResponse), Len(nameResponse)) }

AltOutcomes(r) ==
    RankedOutcomes("explicit", Val(request.topK), request.material, request, weights,
                   r, descResponse)

NameSoft == ~IsHard(request.constraints, "name")

DistinctNumbers(ms) ==
    \A i, j \in DOMAIN ms :
        /\ ~IsNaN(ms[i].score)
        /\ (i # j => ms[i].score # ms[j].score)

AnyFailed == embedding = "failed" \/ nameQuery = "failed" \/ descQuery = "failed"

\* C7: once the embedding call or either index query has failed, the
\* retrieval never returns a result and the handler never answers with one;
\* the call ends by throwing.
C7_FailsAsAWhole ==
    /\ AnyFailed => (result = <<>> /\ response = <<>> /\ pc \in {"retrieving", "threw"})
    /\ pc = "threw" => (AnyFailed /\ result = <<>>)

\* The name query failed after the description query had returned hits.
C7_Witness ==
    /\ nameQuery = "failed"
    /\ descQuery = "done"
    /\ Len(descResponse) > 0
    /\ pc = "threw"

\* C8: the two index queries leave "idle" in the same step, after the
\* embedding; and candidates are aggregated and scored only when both have
\* completed.
C8_FanOutFanIn ==
    /\ nameQuery = "idle" <=> descQuery = "idle"
    /\ nameQuery # "idle" => embedding = "done"
    /\ (result # <<>> \/ queryMatches # <<>> \/ pc = "ranked")
          => (nameQuery = "done" /\ descQuery = "done")

\* The name query has returned hits, the description query is still in
\* flight, and nothing has been scored.
C8_Witness ==
    /\ nameQuery = "done"
    /\ descQuery = "inflight"
    /\ Len(nameResponse) > 0
    /\ pc = "retrieving"
    /\ result = <<>>

\* The claim's examples of a body that fails validation (quality in tenths).
ClaimInvalid(req) ==
    \/ IsSome(req.topK) /\ (RLt(Val(req.topK), <<1, 1>>) \/ RLt(<<10, 1>>, Val(req.topK)))
    \/ IsSome(req.material.price) /\ Val(req.material.price) < 0
    \/ IsSome(req.material.quality)
          /\ (Val(req.material.quality) < 5 \/ Val(req.material.quality) > 10)

Answered(status) == response # <<>> /\ Val(response).status = status

\* C9: a request that fails validation is answered 400, and a request
\* answered 400 caused no embedding call, no index query and no record read.
C9_InvalidRejected ==
    /\ (caller = "granted" /\ pc \notin {"start", "body"} /\ ClaimInvalid(request))
          => Answered(400)
    /\ Answered(400) =>
          /\ embeddingCalls = 0 /\ indexQueries = 0 /\ recordReads = {}
          /\ embedding = "idle" /\ nameQuery = "idle" /\ descQuery = "idle"
          /\ result = <<>>

\* A body with quality 0.3 has been answered 400.
C9_Witness ==
    /\ Answered(400)
    /\ request.material.quality = Some(3)
    /\ pc = "done"

\* C10: retrieveSimilarMaterials only ever runs with an integer topK in 1..10.
C10_TopKInteger ==
    embeddingCalls > 0 =>
        /\ IsSome(request.topK)
        /\ Val(request.topK)[2] = 1
        /\ Val(request.topK)[1] >= 1
        /\ Val(request.topK)[1] <= 10

\* The position of a returned material's match in the ranked list.
\* After the records were read: status 200; a match is left out exactly when
\* its record is gone; every returned material carries the score and the
\* scoreBreakdown of its own match; the materials follow the ranked list.
ResponseFollowsRanking ==
    LET matches == Val(result).matches
        out == Val(response).materials
        RankOf(id) == CHOOSE i \in DOMAIN matches : matches[i].materialId = id
    IN  /\ Answered(200)
        /\ \A i \in DOMAIN matches :
              matches[i].materialId \in missingRecords
                 <=> ~\E j \in DOMAIN out : out[j].id = matches[i].materialId
        /\ \A j \in DOMAIN out :
              \E i \in DOMAIN matches :
                 /\ matches[i].materialId = out[j].id
                 /\ matches[i].score = out[j].score
                 /\ matches[i].scoreBreakdown = out[j].scoreBreakdown
        /\ \A j, k \in DOMAIN out : j < k => RankOf(out[j].id) < RankOf(out[k].id)

\* C11: a ranked match whose record is gone is left out of the response, the
\* request still succeeds with 200, and the other matches are returned with
\* their own score and breakdown in ranked order, no material followed by one
\* with a strictly greater score.
C11_MissingDropped ==
    (pc = "done" /\ result # <<>>) =>
        /\ ResponseFollowsRanking
        /\ \A j, k \in DOMAIN Val(response).materials :
              j < k => ~JLt(Val(response).materials[j].score,
                            Val(response).materials[k].score)

SurvivorIds == {queryMatches[i].materialId : i \in DOMAIN queryMatches}

\* Coordinates the distance computation accepts: both present and non-zero.
UsableCoordinates(loc) ==
    IsSome(loc) /\ Truthy(Val(loc).latitude) /\ Truthy(Val(loc).longitude)

\* The great-circle distance in metres between two points of one meridian.
GreatCircle(a, b) == Num(MetresPerUnit * Abs(b.latitude - a.latitude))

OnlyLocationHard ==
    \A k \in ConstraintKeys \ {"location"} : ~IsHard(request.constraints, k)

\* The candidate has usable stored coordinates farther from the search centre
\* than radiusKm.
BeyondRadius(cand) ==
    LET loc == MetaField(cand.metadata, "location")
    IN  /\ UsableCoordinates(loc)
        /\ RLt(Num(Val(request.location).radiusKm * MetresPerKm),
               GreatCircle(Val(request.location), Val(loc)))

LocationHardSearch ==
    pc = "ranked" /\ IsHard(request.constraints, "location") /\ IsSome(request.location)

\* C12 as claimed: in a location-hard search with a LocationSearch, a
\* candidate is excluded if it has usable stored coordinates farther from the
\* centre than radiusKm, and (no other constraint being hard) only then.
C12_RadiusFilter ==
    LocationHardSearch =>
        \A i \in DOMAIN Candidates :
            /\ BeyondRadius(Candidates[i]) => Candidates[i].materialId \notin SurvivorIds
            /\ (OnlyLocationHard /\ ~BeyondRadius(Candidates[i]))
                  => Candidates[i].materialId \in SurvivorIds

\* C12 as amended: the candidate is excluded if and only if the search centre
\* and the stored coordinates are both usable (latitude and longitude present
\* and non-zero) and the distance exceeds radiusKm; a centre with a zero
\* coordinate excludes nothing.
C12_RadiusFilterUsableCentre ==
    LocationHardSearch =>
        \A i \in DOMAIN Candidates :
            LET out == /\ UsableCoordinates(Some(Val(request.location)))
                       /\ BeyondRadius(Candidates[i])
            IN  /\ out => Candidates[i].materialId \notin SurvivorIds
                /\ (OnlyLocationHard /\ ~out) => Candidates[i].materialId \in SurvivorIds

\* A radius-5-km search dropped the candidate 8 km away and kept the one 3 km
\* away and one without stored coordinates.
C12_Witness ==
    /\ LocationHardSearch
    /\ UsableCoordinates(Some(Val(request.location)))
    /\ \E i, j, k \in DOMAIN Candidates :
          /\ BeyondRadius(Candidates[i])
          /\ Candidates[i].materialId \notin SurvivorIds
          /\ UsableCoordinates(MetaField(Candidates[j].metadata, "location"))
          /\ Candidates[j].materialId \in SurvivorIds
          /\ ~UsableCoordinates(MetaField(Candidates[k].metadata, "location"))
          /\ Candidates[k].materialId \in SurvivorIds

CandidateOf(id) ==
    Candidates[CHOOSE i \in DOMAIN Candidates : Candidates[i].materialId = id]

StoredLocation(id) == MetaField(CandidateOf(id).metadata, "location")

\* 1 / (1 + d / 10000) for a distance d in metres.
Decay(d) == RDiv(One, RAdd(One, RDiv(d, Num(DecayK))))

\* C13 as claimed: in a location-hard search every surviving candidate with
\* stored coordinates has the location score 1 / (1 + d / 10000) of its
\* distance d from the search centre, above 0 and at most 1, and of two such
\* candidates the nearer one scores higher.
C13_DecayScore ==
    LocationHardSearch =>
        \A i \in DOMAIN queryMatches :
            LET m == queryMatches[i]
            IN  UsableCoordinates(StoredLocation(m.materialId)) =>
                   /\ m.scoreBreakdown["location"]
                         = Decay(GreatCircle(Val(request.location),
                                             Val(StoredLocation(m.materialId))))
                   /\ RLt(Zero, m.scoreBreakdown["location"])
                   /\ RLe(m.scoreBreakdown["location"], One)

\* C13 as amended: the location score of such a candidate is the decay of its
\* distance from the query material's own location (the search centre plays
\* no part in it) when that location is usable, so above 0, at most 1 and
\* higher for the nearer of two candidates; it is 0 when the query material
\* has no usable location.
C13_DecayFromQueryLocation ==
    LocationHardSearch =>
        \A i \in DOMAIN queryMatches :
            LET m == queryMatches[i]
                s == m.scoreBreakdown["location"]
                d == GreatCircle(Val(request.material.location),
                                 Val(StoredLocation(m.materialId)))
            IN  UsableCoordinates(StoredLocation(m.materialId)) =>
                   IF UsableCoordinates(request.material.location)
                   THEN /\ s = Decay(d)
                        /\ RLt(Zero, s) /\ RLe(s, One)
                        /\ \A j \in DOMAIN queryMatches :
                              LET n == queryMatches[j]
                              IN  (/\ UsableCoordinates(StoredLocation(n.materialId))
                                   /\ RLt(d, GreatCircle(Val(request.material.location),
                                                         Val(StoredLocation(n.materialId)))))
                                     => RLt(n.scoreBreakdown["location"], s)
                   ELSE s = Zero

\* A location-hard search kept a candidate 3 km from the query's location
\* with the location score 1 / 1.3 = 10/13.
C13_Witness ==
    /\ LocationHardSearch
    /\ UsableCoordinates(request.material.location)
    /\ \E i \in DOMAIN queryMatches :
          /\ UsableCoordinates(StoredLocation(queryMatches[i].materialId))
          /\ GreatCircle(Val(request.material.location),
                         Val(StoredLocation(queryMatches[i].materialId))) = Num(3000)
          /\ queryMatches[i].scoreBreakdown["location"] = <<10, 13>>

AvailabilityHardSearch ==
    pc = "ranked" /\ IsHard(request.constraints, "availability") /\ IsSome(request.availableTime)

HasBound(r) == IsSome(r.from) \/ IsSome(r.to)

\* Two ranges, an absent bound meaning unbounded on that side, share no instant.
Disjoint(a, b) ==
    \/ IsSome(a.to) /\ IsSome(b.from) /\ Val(a.to) < Val(b.from)
    \/ IsSome(b.to) /\ IsSome(a.from) /\ Val(b.to) < Val(a.from)

\* The candidate's stored range and the search range both have a bound and
\* do not overlap.
OutsideWindow(cand) ==
    LET stored == MetaField(cand.metadata, "availableTime")
    IN  /\ IsSome(stored)
        /\ HasBound(Val(request.availableTime))
        /\ HasBound(Val(stored))
        /\ Disjoint(Val(request.availableTime), Val(stored))

\* C14: in an availability-hard search with a search range, a candidate whose
\* stored range and the search range both have a bound and do not overlap is
\* excluded, and (no other constraint being hard) no other candidate is:
\* not one without a stored range, none when the search range has no bound,
\* whatever the candidate's availability score.
C14_TimeFilter ==
    AvailabilityHardSearch =>
        \A i \in DOMAIN Candidates :
            /\ OutsideWindow(Candidates[i]) => Candidates[i].materialId \notin SurvivorIds
            /\ ((\A k \in ConstraintKeys \ {"availability"} : ~IsHard(request.constraints, k))
                /\ ~OutsideWindow(Candidates[i]))
                  => Candidates[i].materialId \in SurvivorIds

\* An availability-hard search dropped a candidate whose availability score
\* against the query material's range is above 0, and kept one without a
\* stored range.
C14_Witness ==
    /\ AvailabilityHardSearch
    /\ \E i, j \in DOMAIN Candidates :
          /\ OutsideWindow(Candidates[i])
          /\ Candidates[i].materialId \notin SurvivorIds
          /\ RLt(Zero, CandidateBreakdown(Candidates[i])["availability"])
          /\ ~IsSome(MetaField(Candidates[j].metadata, "availableTime"))
          /\ Candidates[j].materialId \in SurvivorIds

\* The (score, weight) pairs the combine runs over for a candidate:
\* scoreComponents in the adaptive variant, all seven fields in the explicit.
ScoreComponents(cand) ==
    IF variant = "adaptive"
    THEN AdaptiveComponents(cand,
                            AdaptiveScores(request.material, Provided, cand.metadata),
                            Provided, weights)
    ELSE [i \in 1..7 |-> [score |-> CandidateBreakdown(cand)[FieldSeq[i]],
                          weight |-> weights[FieldSeq[i]]]]

\* The field has a defined score for the candidate when the combine runs.
HasDefinedScore(cand, f) ==
    \/ f \in {"name", "description"}
    \/ variant = "explicit"
    \/ ~IsUndef(AdaptiveScores(request.material, Provided, cand.metadata)[f])

AppliedWeightSum(cand) == SumWeights(ScoreComponents(cand))

InUnitRange(x) == ~IsUndef(x) /\ ~IsNaN(x) /\ RLe(Zero, x) /\ RLe(x, One)

\* C16: every returned match has a combined score in [0, 1] and seven
\* scoreBreakdown entries in [0, 1], none of them NaN.
C16_ScoresInUnitRange ==
    result # <<>> =>
        \A i \in DOMAIN Val(result).matches :
            /\ InUnitRange(Val(result).matches[i].score)
            /\ \A f \in Fields : InUnitRange(Val(result).matches[i].scoreBreakdown[f])

\* The sum of a sequence of numbers.
RECURSIVE RSum(_)
RSum(xs) == IF xs = <<>> THEN Zero ELSE RAdd(Head(xs), RSum(Tail(xs)))

\* C17: combinedScore leaves the pairs with an undefined score out; over the
\* others, with W the sum of their weights and S the sum of score * weight,
\* it returns 0 when W is 0, S itself when W is within 1e-4 of 1, and S / W
\* otherwise.  (A weight sum exactly 1e-4 away from 1 is left open: no double
\* is at that distance from 1.)
C17_CombinedScore ==
    (probe # <<>> /\ Val(probe).fn = "combinedScore" /\ outcome # <<>>) =>
        LET defined == SelectSeq(Val(probe).scores, LAMBDA c : ~IsUndef(c.score))
            W == RSum([i \in DOMAIN defined |-> defined[i].weight])
            S == RSum([i \in DOMAIN defined |-> RMul(defined[i].score, defined[i].weight)])
            off == RAbs(RSub(W, One))
        IN  /\ Val(outcome) = combinedScore(defined)
            /\ W = Zero => Val(outcome) = Zero
            /\ (W # Zero /\ RLt(off, NormalizedTolerance)) => Val(outcome) = S
            /\ (W # Zero /\ RLt(NormalizedTolerance, off)) => Val(outcome) = RDiv(S, W)

\* combinedScore returned the weighted sum undivided for a list with an
\* undefined pair whose defined weights sum to 1.00005, where dividing would
\* have given another number.
C17_Witness ==
    /\ probe # <<>> /\ Val(probe).fn = "combinedScore" /\ outcome # <<>>
    /\ LET scores == Val(probe).scores
           defined == SelectSeq(scores, LAMBDA c : ~IsUndef(c.score))
           W == RSum([i \in DOMAIN defined |-> defined[i].weight])
           S == RSum([i \in DOMAIN defined |-> RMul(defined[i].score, defined[i].weight)])
       IN  /\ Len(defined) < Len(scores)
           /\ W = <<20001, 20000>>
           /\ Val(outcome) = S
           /\ S # RDiv(S, W)

\* The scoreBreakdown of one candidate has been computed from a query and a
\* stored metadata record.
BreakdownApplied == probe # <<>> /\ Val(probe).fn = "scoreBreakdown" /\ outcome # <<>>

\* C18 as stated: whenever query and candidate both carry the value, the
\* price score is 1 for a stored price at most the query price and
\* queryPrice / storedPrice otherwise, and the quality score is 1 for a
\* stored quality at least the requested one and storedQuality /
\* requestedQuality otherwise.
C18_PriceQualityScores ==
    BreakdownApplied =>
        LET qp == Val(probe).material.price
            rq == Val(probe).material.quality
            sp == MetaField(Val(probe).cand.metadata, "price")
            sq == MetaField(Val(probe).cand.metadata, "quality")
        IN  /\ (IsSome(qp) /\ IsSome(sp)) =>
                  Val(outcome)["price"] = IF Val(sp) <= Val(qp) THEN One
                                          ELSE Rat(Val(qp), Val(sp))
            /\ (IsSome(rq) /\ IsSome(sq)) =>
                  Val(outcome)["quality"] = IF Val(sq) >= Val(rq) THEN One
                                            ELSE Rat(Val(sq), Val(rq))

\* C18, for a positive query price and a positive stored quality: the price
\* score is 1 for a stored price at most the query price (0 included) and
\* queryPrice / storedPrice otherwise; the quality score is 1 for a stored
\* quality at least the requested one and storedQuality / requestedQuality
\* otherwise.  Outside that: with a query price of 0 the price score is 0 in
\* the adaptive variant and, in the explicit one, 1 for a stored price of 0
\* and 1 / (1 + storedPrice) otherwise; with a stored quality of 0 the
\* quality score is 1 / (1 + requestedQuality); and a value missing on either
\* side gives the score 0.
C18_PriceQualityWhenPositive ==
    BreakdownApplied =>
        LET qp == Val(probe).material.price
            rq == Val(probe).material.quality
            sp == MetaField(Val(probe).cand.metadata, "price")
            sq == MetaField(Val(probe).cand.metadata, "quality")
            price == Val(outcome)["price"]
            quality == Val(outcome)["quality"]
        IN  /\ (IsSome(qp) /\ IsSome(sp) /\ Val(qp) > 0) =>
                  price = IF Val(sp) <= Val(qp) THEN One ELSE Rat(Val(qp), Val(sp))
            /\ (IsSome(qp) /\ IsSome(sp) /\ Val(qp) = 0) =>
                  price = IF variant = "adaptive" THEN Zero
                          ELSE IF Val(sp) = 0 THEN One
                          ELSE Rat(1, 1 + Val(sp))
            /\ (~IsSome(qp) \/ ~IsSome(sp)) => price = Zero
            /\ (IsSome(rq) /\ IsSome(sq) /\ Val(sq) > 0) =>
                  quality = IF Val(sq) >= Val(rq) THEN One ELSE Rat(Val(sq), Val(rq))
            /\ (IsSome(rq) /\ IsSome(sq) /\ Val(sq) = 0) =>
                  quality = Rat(QualityScale, QualityScale + Val(rq))
            /\ (~IsSome(rq) \/ ~IsSome(sq)) => quality = Zero

\* A query for price 100 and quality 0.8 met a candidate stored at price 150
\* and quality 0.5: price score 2/3, quality score 5/8.
C18_Witness ==
    /\ BreakdownApplied
    /\ Val(probe).material.price = Some(100)
    /\ Val(probe).material.quality = Some(8)
    /\ MetaField(Val(probe).cand.metadata, "price") = Some(150)
    /\ MetaField(Val(probe).cand.metadata, "quality") = Some(5)
    /\ Val(outcome)["price"] = <<2, 3>>
    /\ Val(outcome)["quality"] = <<5, 8>>

\* C19: availabilityScore returns undefined exactly when a range is missing
\* or has neither bound; 0 when the two ranges do not overlap; and otherwise
\* min(1, overlapDuration / querySpanDuration), a number of [0, 1], which for
\* a query range with both bounds and a positive length is the overlap
\* divided by that length, capped at 1.
C19_AvailabilityScore ==
    (probe # <<>> /\ Val(probe).fn = "availabilityScore" /\ outcome # <<>>) =>
        LET expected == Val(probe).expected
            match == Val(probe).match
            v == Val(outcome)
            usable == /\ IsSome(expected) /\ IsSome(match)
                      /\ HasBound(Val(expected)) /\ HasBound(Val(match))
        IN  /\ IsUndef(v) <=> ~usable
            /\ usable =>
                  LET e == Val(expected)
                      m == Val(match)
                  IN  IF Disjoint(e, m) THEN v = Zero
                      ELSE /\ InUnitRange(v)
                           /\ (IsSome(e.from) /\ IsSome(e.to) /\ Val(e.from) < Val(e.to)) =>
                                 LET start == IF IsSome(m.from) /\ Val(m.from) > Val(e.from)
                                              THEN Val(m.from) ELSE Val(e.from)
                                     end == IF IsSome(m.to) /\ Val(m.to) < Val(e.to)
                                            THEN Val(m.to) ELSE Val(e.to)
                                 IN  v = RMin(One, Rat(end - start, Val(e.to) - Val(e.from)))

\* C20: once a sub-query of a retrieval has failed, no index query of that
\* retrieval still in flight runs to completion.
C20_InFlightCancelled ==
    [][AnyFailed => ~(\/ nameQuery = "inflight" /\ nameQuery' = "done"
                      \/ descQuery = "inflight" /\ descQuery' = "done")]_vars

\* C23: matches with equal combined scores are returned in identifier order:
\* of two returned matches with the same score, the one with the smaller
\* identifier comes first.
C23_TiesByIdentifier ==
    pc = "ranked" =>
        LET matches == Val(result).matches
        IN  \A i, j \in DOMAIN matches :
                (/\ i < j
                 /\ ~IsNaN(matches[i].score)
                 /\ matches[i].score = matches[j].score)
                    => matches[i].materialId < matches[j].materialId

\* C24: the candidates are the identifiers of the two hit lists, each once;
\* a candidate's name (description) score is that index's similarity when the
\* index returned it and 0 otherwise; its metadata is the name hit's, none
\* when only the description index returned it.  Such a candidate, unless a
\* hard constraint on a scored field removes it, is scored: its breakdown has
\* name, price, quality, location, availability and size at 0 and description
\* at the similarity, and its combined score is the description share alone
\* (similarity * description weight, over the name and description weights in
\* the adaptive variant).
C24_CandidateUnion ==
    pc = "ranked" =>
        /\ {Candidates[i].materialId : i \in DOMAIN Candidates}
              = HitIds(nameResponse) \cup HitIds(descResponse)
        /\ \A i, j \in DOMAIN Candidates :
              Candidates[i].materialId = Candidates[j].materialId => i = j
        /\ \A i \in DOMAIN Candidates :
              LET c == Candidates[i]
                  named == c.materialId \in HitIds(nameResponse)
                  described == c.materialId \in HitIds(descResponse)
              IN  /\ c.nameScore = IF named THEN HitOf(nameResponse, c.materialId).score
                                   ELSE Zero
                  /\ c.descScore = IF described THEN HitOf(descResponse, c.materialId).score
                                   ELSE Zero
                  /\ c.metadata = IF named
                                  THEN Some(HitOf(nameResponse, c.materialId).metadata)
                                  ELSE None
                  /\ (/\ ~named
                      /\ \A f \in ThresholdFields :
                            ~IsHard(request.constraints, ConstraintKey(f)))
                        => c.materialId \in SurvivorIds
        /\ \A i \in DOMAIN queryMatches :
              LET m == queryMatches[i]
                  sim == HitOf(descResponse, m.materialId).score
              IN  m.materialId \notin HitIds(nameResponse) =>
                     /\ m.scoreBreakdown =
                           [f \in Fields |-> IF f = "description" THEN sim ELSE Zero]
                     /\ IF variant = "explicit"
                        THEN m.score = RMul(sim, weights["description"])
                        ELSE /\ ~IsNaN(m.score)
                             /\ RMul(m.score, RAdd(weights["name"], weights["description"]))
                                   = RMul(sim, weights["description"])

\* A retrieval ranked a candidate that only the description index returned,
\* with a combined score above 0, next to one that both indices returned.
C24_Witness ==
    /\ pc = "ranked"
    /\ \E i, j \in DOMAIN queryMatches :
          /\ queryMatches[i].materialId \notin HitIds(nameResponse)
          /\ RLt(Zero, queryMatches[i].score)
          /\ queryMatches[i].scoreBreakdown["price"] = Zero
          /\ queryMatches[j].materialId \in HitIds(nameResponse) \cap HitIds(descResponse)
          /\ RLt(Zero, queryMatches[j].scoreBreakdown["price"])

\* C25: in the adaptive variant a field is provided exactly when the query's
\* name or description is non-empty after trimming, its price is above 0, its
\* quality is at least 0.5, its latitude and longitude both exceed 1e-4 in
\* magnitude, its availableTime has a from or a to, its size has a width, a
\* height or a depth.  The outcome depends on the query alone and is applied
\* alike to every candidate: exactly the provided fields have a weight, and a
\* ranked candidate's structured scores are computed for exactly the provided
\* fields, the others being 0.
C25_FieldPresence ==
    (variant = "adaptive" /\ pc = "ranked") =>
        LET material == request.material
            Meaningful(f) ==
                CASE f = "name" -> IsSome(material.name) /\ Val(material.name) # " "
                  [] f = "description" ->
                        IsSome(material.description) /\ Val(material.description) # " "
                  [] f = "price" -> IsSome(material.price) /\ Val(material.price) > 0
                  [] f = "quality" ->
                        IsSome(material.quality) /\ 2 * Val(material.quality) >= QualityScale
                  [] f = "location" ->
                        /\ IsSome(material.location)
                        /\ Val(material.location).latitude # 0
                        /\ Val(material.location).longitude # 0
                  [] f = "availability" ->
                        /\ IsSome(material.availableTime)
                        /\ HasBound(Val(material.availableTime))
                  [] f = "size" ->
                        /\ IsSome(material.size)
                        /\ \E d \in {"width", "height", "depth"} : IsSome(Val(material.size)[d])
        IN  /\ \A f \in Fields : Provided[f] <=> Meaningful(f)
            /\ \A f \in Fields : weights[f] # Zero <=> Meaningful(f)
            /\ \A i \in DOMAIN queryMatches :
                  LET cand == CandidateOf(queryMatches[i].materialId)
                      raw == RawScores(material, cand.metadata)
                  IN  \A f \in DOMAIN raw :
                         queryMatches[i].scoreBreakdown[f]
                            = IF Meaningful(f) THEN OrZero(raw[f]) ELSE Zero

\* An adaptive retrieval whose query has a name and a description but a price
\* of 0, coordinates (0, 0), an availableTime without bounds and a size
\* without dimensions ranked a candidate stored with a price: only name and
\* description have a weight, and the candidate's structured scores are 0.
C25_Witness ==
    /\ variant = "adaptive"
    /\ pc = "ranked"
    /\ request.material.price = Some(0)
    /\ request.material.location = Some(Loc(0, 0))
    /\ IsSome(request.material.availableTime)
    /\ IsSome(request.material.size)
    /\ weights = [f \in Fields |-> IF f \in {"name", "description"} THEN <<1, 2>> ELSE Zero]
    /\ \E i \in DOMAIN queryMatches :
          /\ IsSome(MetaField(CandidateOf(queryMatches[i].materialId).metadata, "price"))
          /\ \A f \in Fields \ {"name", "description"} :
                queryMatches[i].scoreBreakdown[f] = Zero

\* C26 as claimed: the combined score of every returned match is the sum over
\* the seven fields of its scoreBreakdown entry times the returned weight.
C26_ScoreIsWeightedSum ==
    pc = "ranked" =>
        \A i \in DOMAIN Val(result).matches :
            LET m == Val(result).matches[i]
                w == Val(result).weights
                T(k) == JMul(m.scoreBreakdown[FieldSeq[k]], w[FieldSeq[k]])
            IN  m.score = JAdd(T(1), JAdd(T(2), JAdd(T(3), JAdd(T(4),
                              JAdd(T(5), JAdd(T(6), T(7)))))))

\* C26 as amended: in the explicit variant the combined score is that sum
\* under the returned weights, which are the ranking weights.  In the
\* adaptive variant it is the weighted mean under the resolved weights over
\* the fields whose score is defined for the candidate: the score times the
\* sum of those fields' weights is the sum of breakdown entry times resolved
\* weight; it is the sum under the returned weights when these are the
\* resolved ones and every weighted field has a defined score.  (A NaN
\* breakdown entry makes both sides NaN.)
C26_ScoreFromResolvedWeights ==
    pc = "ranked" =>
        \A i \in DOMAIN Val(result).matches :
            LET m == Val(result).matches[i]
                Sum(w) ==
                    LET T(k) == JMul(m.scoreBreakdown[FieldSeq[k]], w[FieldSeq[k]])
                    IN  JAdd(T(1), JAdd(T(2), JAdd(T(3), JAdd(T(4),
                             JAdd(T(5), JAdd(T(6), T(7)))))))
                total == AppliedWeightSum(CandidateOf(m.materialId))
            IN  IF variant = "explicit"
                THEN Val(result).weights = weights /\ m.score = Sum(weights)
                ELSE /\ JMul(m.score, total) = Sum(weights)
                     /\ (Val(result).weights = weights /\ total = One)
                           => m.score = Sum(Val(result).weights)

\* An adaptive retrieval returned weights other than the resolved ones with
\* a match whose score is above 0 and is not the sum under the returned
\* weights.
C26_Witness ==
    /\ pc = "ranked"
    /\ variant = "adaptive"
    /\ \E i \in DOMAIN Val(result).matches :
          LET m == Val(result).matches[i]
          IN  /\ ~IsNaN(m.score)
              /\ RLt(Zero, m.score)
              /\    /\ Val(result).weights # weights
                    /\ m.score # WeightedSum(m.scoreBreakdown, Val(result).weights, FieldSeq)
                    /\ AppliedWeightSum(CandidateOf(m.materialId)) # One

\* C27: in the adaptive variant a hard constraint on price, quality or size
\* leaves only candidates whose score on that field was computed: the query
\* provides the field, the candidate has metadata and the stored value is
\* present (and the score reaches the threshold).  With a hard constraint on
\* a field the query does not provide, no candidate survives and the match
\* list is empty.
C27_HardNeedsScore ==
    (pc = "ranked" /\ variant = "adaptive" /\ IsSome(request.constraints)) =>
        \A f \in {"price", "quality", "size"} :
            Val(request.constraints)[ConstraintKey(f)] = "hard" =>
                /\ \A id \in SurvivorIds :
                      LET cand == CandidateOf(id)
                          raw == RawScores(request.material, cand.metadata)[f]
                      IN  /\ Provided[f]
                          /\ IsSome(cand.metadata)
                          /\ IsSome(MetaField(cand.metadata, f))
                          /\ ~IsUndef(raw)
                          /\ ~JLt(raw, HARD_CONSTRAINT_MIN_SCORE)
                /\ ~Provided[f] => /\ queryMatches = <<>>
                                   /\ Val(result).matches = <<>>

\* A price-hard adaptive search met a candidate without metadata, one whose
\* stored price is missing and one that survived.
C27_Witness ==
    /\ pc = "ranked"
    /\ variant = "adaptive"
    /\ IsSome(request.constraints)
    /\ Val(request.constraints)["price"] = "hard"
    /\ Provided["price"]
    /\ SurvivorIds # {}
    /\ \E i, j \in DOMAIN Candidates :
          /\ ~IsSome(Candidates[i].metadata)
          /\ Candidates[i].materialId \notin SurvivorIds
          /\ IsSome(Candidates[j].metadata)
          /\ ~IsSome(MetaField(Candidates[j].metadata, "price"))
          /\ Candidates[j].materialId \notin SurvivorIds

\* ------------------------------------------------- auth and users services
\* Requests to /v1/auth/signup and /v1/users/update, served concurrently: a
\* handler runs from one await on env.DATA_KV to the next, and handlers of
\* different requests interleave at those awaits.

\* How many requests one behaviour receives.
MaxCalls == 2

Usernames == {"root", "ada"}

\* AccountKV
Account(username, password, access, admin) ==
    [username |-> username, password |-> password, access |-> access, admin |-> admin]

\* The store before any request: one administrator, set up out of band (no
\* handler creates an account with admin = true), and no material.
InitialKV ==
    [account |-> [u \in Usernames |->
                    IF u = "root" THEN Some(Account(u, <<"hash", "r0">>, TRUE, TRUE))
                    ELSE None],
     material |-> <<>>]

InitAccounts ==
    /\ variant = "adaptive"
    /\ caller = "granted"
    /\ request = BaseRequest
    /\ pc = "done"
    /\ weights = <<>>
    /\ embedding = "idle"
    /\ nameQuery = "idle"
    /\ descQuery = "idle"
    /\ nameResponse = <<>>
    /\ descResponse = <<>>
    /\ queryMatches = <<>>
    /\ result = <<>>
    /\ response = <<>>
    /\ embeddingCalls = 0
    /\ indexQueries = 0
    /\ recordReads = {}
    /\ missingRecords = {}
    /\ probe = <<>>
    /\ outcome = <<>>
    /\ DATA_KV = InitialKV
    /\ VECTORIZE = [ebkp |-> {}, name |-> {}, desc |-> {}]
    /\ calls = <<>>

\* A request reaches service.fetch.  token is the username of the JWT it
\* carries (a token is issued by /signin to an existing account, and no
\* handler deletes an account) or None; target is parts[1] of /update/<name>.
ReceiveAccountRequest ==
    /\ Len(calls) < MaxCalls
    /\ \E r \in
          { [op |-> "signup", token |-> None, target |-> None,
             body |-> [username |-> "ada", password |-> p]] : p \in {"p1", "p2"} }
          \cup
          { [op |-> "update", token |-> t, target |-> g,
             body |-> [access |-> Some(b), admin |-> Some(b)]] :
                t \in {None} \cup {Some(u) : u \in {v \in Usernames : IsSome(DATA_KV.account[v])}},
                g \in {None} \cup {Some(u) : u \in Usernames},
                b \in BOOLEAN } :
          calls' = Append(calls, [op |-> r.op, token |-> r.token, target |-> r.target,
                                  body |-> r.body, pc |-> "start", status |-> 0,
                                  userData |-> None])
    /\ UNCHANGED <<DATA_KV, VECTORIZE, probe, outcome, missingRecords, variant, caller,
                   request, pc, weights, embedding, nameQuery, descQuery, nameResponse,
                   descResponse, queryMatches, result, response, embeddingCalls,
                   indexQueries, recordReads>>

\* auth.ts, POST /signup: get, then (after hash) put.
signup(i) ==
    LET c == calls[i]
        username == c.body.username
    IN  /\ c.op = "signup"
        /\ \/ /\ c.pc = "start"
              /\ IF IsSome(DATA_KV.account[username])
                 THEN calls' = [calls EXCEPT ![i].pc = "done", ![i].status = 400]
                 ELSE calls' = [calls EXCEPT ![i].pc = "put"]
              /\ UNCHANGED DATA_KV
           \/ /\ c.pc = "put"
              /\ DATA_KV' = [DATA_KV EXCEPT !.account[username] =
                                Some(Account(username, <<"hash", c.body.password>>, FALSE, FALSE))]
              /\ calls' = [calls EXCEPT ![i].pc = "done", ![i].status = 201]
        /\ UNCHANGED <<VECTORIZE, probe, outcome, missingRecords, variant, caller,
                       request, pc, weights, embedding, nameQuery, descQuery, nameResponse,
                       descResponse, queryMatches, result, response, embeddingCalls,
                       indexQueries, recordReads>>

\* users.ts, POST /update: authenticateToken; the author is read and must be
\* an admin only when the target is another account; the target is read;
\* {...userData, ...updateData} is written.
update(i) ==
    LET c == calls[i]
        self == Val(c.token)
        targetUser == IF IsSome(c.target) THEN Val(c.target) ELSE self
        readTarget ==
            IF IsSome(DATA_KV.account[targetUser])
            THEN calls' = [calls EXCEPT ![i].pc = "put",
                                        ![i].userData = DATA_KV.account[targetUser]]
            ELSE calls' = [calls EXCEPT ![i].pc = "done", ![i].status = 404]
    IN  /\ c.op = "update"
        /\ \/ /\ c.pc = "start"
              /\ IF ~IsSome(c.token)
                 THEN calls' = [calls EXCEPT ![i].pc = "done", ![i].status = 401]
                 ELSE IF targetUser # self
                 THEN LET author == DATA_KV.account[self]
                      IN  IF ~IsSome(author) \/ ~Val(author).admin
                          THEN calls' = [calls EXCEPT ![i].pc = "done", ![i].status = 403]
                          ELSE calls' = [calls EXCEPT ![i].pc = "user"]
                 ELSE readTarget
              /\ UNCHANGED DATA_KV
           \/ /\ c.pc = "user"
              /\ readTarget
              /\ UNCHANGED DATA_KV
           \/ /\ c.pc = "put"
              /\ DATA_KV' = [DATA_KV EXCEPT !.account[targetUser] =
                                Some([Val(c.userData) EXCEPT
                                        !.access = IF IsSome(c.body.access)
                                                   THEN Val(c.body.access) ELSE @,
                                        !.admin = IF IsSome(c.body.admin)
                                                  THEN Val(c.body.admin) ELSE @])]
              /\ calls' = [calls EXCEPT ![i].pc = "done", ![i].status = 200]
        /\ UNCHANGED <<VECTORIZE, probe, outcome, missingRecords, variant, caller,
                       request, pc, weights, embedding, nameQuery, descQuery, nameResponse,
                       descResponse, queryMatches, result, response, embeddingCalls,
                       indexQueries, recordReads>>

NextAccounts ==
    \/ ReceiveAccountRequest
    \/ \E i \in DOMAIN calls : signup(i)
    \/ \E i \in DOMAIN calls : update(i)

SpecAccounts == InitAccounts /\ [][NextAccounts]_vars

\* ------------------------------------------------------- materials service
\* POST /add and POST /retrieve of the materials API, served concurrently with
\* each other and with POST /update of the users service.  An index is the
\* set of its entries; upsert replaces the entries that carry an identifier
\* of the batch.

materialToVectorizeVectorWithMeta(id, vector, meta) ==
    [id |-> id, values |-> vector,
     metadata |-> Some(buildMetadata(IF IsSome(meta) THEN Val(meta)
                                     ELSE [quality |-> None, price |-> None,
                                           location |-> None, size |-> None,
                                           availableTime |-> None]))]

materialToVectorizeVector(id, vector, meta) ==
    [id |-> id, values |-> vector,
     metadata |-> IF IsSome(meta) THEN Some(buildMetadata(Val(meta))) ELSE None]

\* The accounts the materials requests come from: an administrator with
\* access and an account without; nothing is stored or indexed yet.
InitIngest ==
    /\ variant = "adaptive"
    /\ caller = "granted"
    /\ request = BaseRequest
    /\ pc = "done"
    /\ weights = <<>>
    /\ embedding = "idle"
    /\ nameQuery = "idle"
    /\ descQuery = "idle"
    /\ nameResponse = <<>>
    /\ descResponse = <<>>
    /\ queryMatches = <<>>
    /\ result = <<>>
    /\ response = <<>>
    /\ embeddingCalls = 0
    /\ indexQueries = 0
    /\ recordReads = {}
    /\ missingRecords = {}
    /\ probe = <<>>
    /\ outcome = <<>>
    /\ DATA_KV = [InitialKV EXCEPT
                    !.account["ada"] = Some(Account("ada", <<"hash", "p1">>, FALSE, FALSE))]
    /\ VECTORIZE = [ebkp |-> {}, name |-> {}, desc |-> {}]
    /\ calls = <<>>

\* A request reaches service.fetch of the materials API, or the
\* administrator changes an account's access through /v1/users/update.
\* body is the materials array of /add (empty: the schema rejects it).
ReceiveMaterialsRequest ==
    /\ Len(calls) < MaxCalls
    /\ \E r \in
          { [op |-> "add", token |-> t, target |-> None,
             body |-> <<QueryFull, [QueryText EXCEPT !.description = None]>>] :
                t \in {None} \cup {Some(u) : u \in Usernames} }
          \cup
          { [op |-> "add", token |-> Some("root"), target |-> None, body |-> <<>>] }
          \cup
          { [op |-> "retrieve", token |-> Some("root"), target |-> None, body |-> <<>>] }
          \cup
          \* the administrator revokes their own access, or grants ada's
          { [op |-> "update", token |-> Some("root"), target |-> None,
             body |-> [access |-> Some(FALSE), admin |-> None]],
            [op |-> "update", token |-> Some("root"), target |-> Some("ada"),
             body |-> [access |-> Some(TRUE), admin |-> None]] } :
          calls' = Append(calls,
                      [op |-> r.op, token |-> r.token, target |-> r.target, body |-> r.body,
                       pc |-> "start", status |-> 0, userData |-> None,
                       touched |-> FALSE, materials |-> <<>>,
                       upserts |-> [x \in {"ebkp", "name", "desc"} |-> "idle"],
                       puts |-> <<>>, pending |-> {}, returned |-> {}])
    /\ UNCHANGED <<DATA_KV, VECTORIZE, probe, outcome, missingRecords, variant, caller,
                   request, pc, weights, embedding, nameQuery, descQuery, nameResponse,
                   descResponse, queryMatches, result, response, embeddingCalls,
                   indexQueries, recordReads>>

fetchWithoutAccountCheck(i) ==
    LET c == calls[i]
    IN  /\ c.op \in {"add", "retrieve"}
        /\ c.pc = "start"
        /\ IF ~IsSome(c.token)
           THEN calls' = [calls EXCEPT ![i].pc = "done", ![i].status = 401]
           ELSE calls' = [calls EXCEPT ![i].pc = "body"]
        /\ UNCHANGED <<DATA_KV, VECTORIZE, probe, outcome, missingRecords, variant, caller,
                       request, pc, weights, embedding, nameQuery, descQuery, nameResponse,
                       descResponse, queryMatches, result, response, embeddingCalls,
                       indexQueries, recordReads>>

\* index.ts, the top of service.fetch: authenticateToken, then the account is
\* read and must have access.
fetch(i) ==
    LET c == calls[i]
        author == DATA_KV.account[Val(c.token)]
    IN  /\ c.op \in {"add", "retrieve"}
        /\ c.pc = "start"
        /\ IF ~IsSome(c.token)
           THEN calls' = [calls EXCEPT ![i].pc = "done", ![i].status = 401]
           ELSE IF ~IsSome(author) \/ ~Val(author).access
           THEN calls' = [calls EXCEPT ![i].pc = "done", ![i].status = 403]
           ELSE calls' = [calls EXCEPT ![i].pc = "body"]
        /\ UNCHANGED <<DATA_KV, VECTORIZE, probe, outcome, missingRecords, variant, caller,
                       request, pc, weights, embedding, nameQuery, descQuery, nameResponse,
                       descResponse, queryMatches, result, response, embeddingCalls,
                       indexQueries, recordReads>>

\* addMaterialsToVectorStore, after the embeddings: the three upserts of
\* Promise.all complete or fail one by one, in any order.  The first failure
\* rejects the await (the request is answered 500) while the other upserts
\* stay in flight; when all three are done the handler goes on to write the
\* records, one DATA_KV.put per material, all in flight at once.
addMaterialsToVectorStore(i) ==
    LET c == calls[i]
        vectors(x) ==
            { materialToVectorizeVector(
                  c.materials[k].id,
                  <<x, IF x = "ebkp" THEN c.materials[k].ebkp
                       ELSE IF x = "name" THEN c.materials[k].name
                       ELSE c.materials[k].description>>,
                  IF x = "name" THEN Some(c.materials[k]) ELSE None)
              : k \in DOMAIN c.materials }
        upsert(index, vs) ==
            {e \in index : e.id \notin {v.id : v \in vs}} \cup vs
        settle(ups) ==
            IF c.pc # "upsert" THEN [calls EXCEPT ![i].upserts = ups]
            ELSE IF \E x \in DOMAIN ups : ups[x] = "failed"
            THEN [calls EXCEPT ![i].upserts = ups, ![i].pc = "done", ![i].status = 500]
            ELSE IF \A x \in DOMAIN ups : ups[x] = "done"
            THEN [calls EXCEPT ![i].upserts = ups, ![i].pc = "puts",
                               ![i].puts = [k \in DOMAIN c.materials |-> "inflight"]]
            ELSE [calls EXCEPT ![i].upserts = ups]
    IN  /\ c.op = "add"
        /\ \E x \in DOMAIN c.upserts :
              /\ c.upserts[x] = "inflight"
              /\ \/ /\ VECTORIZE' = [VECTORIZE EXCEPT ![x] = upsert(@, vectors(x))]
                    /\ calls' = settle([c.upserts EXCEPT ![x] = "done"])
                 \/ /\ calls' = settle([c.upserts EXCEPT ![x] = "failed"])
                    /\ UNCHANGED VECTORIZE
        /\ UNCHANGED <<DATA_KV, probe, outcome, missingRecords, variant, caller,
                       request, pc, weights, embedding, nameQuery, descQuery, nameResponse,
                       descResponse, queryMatches, result, response, embeddingCalls,
                       indexQueries, recordReads>>

\* index.ts, POST /add: safeParse; an identifier, a classification code and,
\* where missing, a description for each material, then the embeddings (a
\* failing model call answers 500); addMaterialsToVectorStore; the record
\* writes, each of which completes or fails; 200 when all are written.
add(i) ==
    LET c == calls[i]
        assigned == LET n(j) == Len(calls[j].materials)
                        RECURSIVE upTo(_)
                        upTo(j) == IF j = 0 THEN 0 ELSE n(j) + upTo(j - 1)
                    IN  upTo(Len(calls))
        materials ==
            [k \in DOMAIN c.body |->
                [id |-> assigned + k,
                 ebkp |-> <<"generateEBKP", c.body[k].name>>,
                 name |-> c.body[k].name,
                 description |-> IF IsSome(c.body[k].description)
                                 THEN c.body[k].description
                                 ELSE Some(<<"generateDescription", c.body[k].name>>),
                 price |-> c.body[k].price, quality |-> c.body[k].quality,
                 size |-> c.body[k].size, location |-> c.body[k].location,
                 availableTime |-> c.body[k].availableTime]]
        settle(ps) ==
            IF c.pc # "puts" THEN [calls EXCEPT ![i].puts = ps]
            ELSE IF \E k \in DOMAIN ps : ps[k] = "failed"
            THEN [calls EXCEPT ![i].puts = ps, ![i].pc = "done", ![i].status = 500]
            ELSE IF \A k \in DOMAIN ps : ps[k] = "done"
            THEN [calls EXCEPT ![i].puts = ps, ![i].pc = "done", ![i].status = 200]
            ELSE [calls EXCEPT ![i].puts = ps]
    IN  /\ c.op = "add"
        /\ \/ /\ c.pc = "body"
              /\ IF c.body = <<>>
                 THEN calls' = [calls EXCEPT ![i].pc = "done", ![i].status = 400]
                 ELSE \/ calls' = [calls EXCEPT ![i].pc = "done", ![i].status = 500]
                      \/ calls' = [calls EXCEPT
                                     ![i].pc = "upsert", ![i].touched = TRUE,
                                     ![i].materials = materials,
                                     ![i].upserts = [x \in DOMAIN @ |-> "inflight"]]
              /\ UNCHANGED DATA_KV
           \/ \E k \in DOMAIN c.puts :
                 /\ c.puts[k] = "inflight"
                 /\ \/ /\ DATA_KV' = [DATA_KV EXCEPT !.material =
                                         (c.materials[k].id :> c.materials[k]) @@ @]
                       /\ calls' = settle([c.puts EXCEPT ![k] = "done"])
                    \/ /\ calls' = settle([c.puts EXCEPT ![k] = "failed"])
                       /\ UNCHANGED DATA_KV
        /\ UNCHANGED <<VECTORIZE, probe, outcome, missingRecords, variant, caller,
                       request, pc, weights, embedding, nameQuery, descQuery, nameResponse,
                       descResponse, queryMatches, result, response, embeddingCalls,
                       indexQueries, recordReads>>

\* index.ts, POST /retrieve, as far as the stores are concerned: the name and
\* description indices are queried (a failing query answers 500), the record
\* of each match is read, and the matches whose record is null are dropped.
retrieve(i) ==
    LET c == calls[i]
    IN  /\ c.op = "retrieve"
        /\ \/ /\ c.pc = "body"
              /\ \/ calls' = [calls EXCEPT ![i].pc = "done", ![i].status = 500,
                                           ![i].touched = TRUE]
                 \/ calls' = [calls EXCEPT
                                ![i].pc = "read", ![i].touched = TRUE,
                                ![i].pending = {e.id : e \in VECTORIZE.name \cup VECTORIZE.desc}]
           \/ /\ c.pc = "read"
              /\ IF c.pending = {}
                 THEN calls' = [calls EXCEPT ![i].pc = "done", ![i].status = 200]
                 ELSE \E id \in c.pending :
                        calls' = [calls EXCEPT
                                    ![i].pending = @ \ {id},
                                    ![i].returned = IF id \in DOMAIN DATA_KV.material
                                                    THEN @ \cup {id} ELSE @]
        /\ UNCHANGED <<DATA_KV, VECTORIZE, probe, outcome, missingRecords, variant, caller,
                       request, pc, weights, embedding, nameQuery, descQuery, nameResponse,
                       descResponse, queryMatches, result, response, embeddingCalls,
                       indexQueries, recordReads>>

NextIngest ==
    \/ ReceiveMaterialsRequest
    \/ \E i \in DOMAIN calls : fetch(i)
    \/ \E i \in DOMAIN calls : add(i)
    \/ \E i \in DOMAIN calls : addMaterialsToVectorStore(i)
    \/ \E i \in DOMAIN calls : retrieve(i)
    \/ \E i \in DOMAIN calls : update(i)

SpecIngest == InitIngest /\ [][NextIngest]_vars

\* C21: once POST /add has answered 200, every material of its batch has
\* exactly one entry under its identifier in each of the three indices and
\* its record in DATA_KV; the name entry carries the MetaData projection
\* (quality, price, location, size, availableTime) of the material, the
\* classification-code and description entries carry no metadata.
C21_IngestedOnce ==
    \A i \in DOMAIN calls :
        (calls[i].op = "add" /\ calls[i].status = 200) =>
            \A k \in DOMAIN calls[i].materials :
                LET m == calls[i].materials[k]
                    under(x) == {e \in VECTORIZE[x] : e.id = m.id}
                IN  /\ \A x \in {"ebkp", "name", "desc"} : Cardinality(under(x)) = 1
                    /\ \A e \in under("ebkp") \cup under("desc") : e.metadata = None
                    /\ \A e \in under("name") :
                          /\ IsSome(e.metadata)
                          /\ DOMAIN Val(e.metadata) =
                                {"quality", "price", "location", "size", "availableTime"}
                          /\ Val(e.metadata) = buildMetadata(m)
                          /\ Val(e.metadata).quality = m.quality
                          /\ Val(e.metadata).price = m.price
                          /\ Val(e.metadata).location = m.location
                    /\ m.id \in DOMAIN DATA_KV.material
                    /\ DATA_KV.material[m.id] = m
                    /\ \A j \in DOMAIN calls[i].materials :
                          calls[i].materials[j].id = m.id => j = k

\* Two batches of two materials were ingested, each answered 200.
C21_Witness ==
    \E i, j \in DOMAIN calls :
        /\ i # j
        /\ calls[i].op = "add" /\ calls[i].status = 200 /\ Len(calls[i].materials) = 2
        /\ calls[j].op = "add" /\ calls[j].status = 200 /\ Len(calls[j].materials) = 2

\* C22: the gate of the materials API answers 401 to a request without a
\* valid token and 403 to one whose account is missing or has no access at
\* that moment (so a revocation already written refuses the next request),
\* and lets the others through; a refused request takes no further step, and
\* every step that changes an index or a material record, like every index
\* query and record read, is a step of a request that passed the gate.
C22_RefusedTouchNothing ==
    [][/\ \A i \in DOMAIN calls :
             LET c == calls[i]
                 d == calls'[i]
             IN  (c.op \in {"add", "retrieve"}) =>
                   /\ (c.pc = "start" /\ d.pc # "start") =>
                         IF ~IsSome(c.token) THEN d.status = 401 /\ d.pc = "done"
                         ELSE IF \/ ~IsSome(DATA_KV.account[Val(c.token)])
                                 \/ ~Val(DATA_KV.account[Val(c.token)]).access
                         THEN d.status = 403 /\ d.pc = "done"
                         ELSE d.status = 0 /\ d.pc = "body"
                   /\ (c.status \in {401, 403}) =>
                         /\ d = c
                         /\ ~c.touched /\ c.materials = <<>> /\ c.returned = {}
       /\ (VECTORIZE' # VECTORIZE \/ DATA_KV'.material # DATA_KV.material) =>
             \E i \in DOMAIN calls :
                /\ calls'[i] # calls[i]
                /\ calls[i].op = "add"
                /\ calls[i].touched
      ]_vars

\* The administrator's access was revoked through /update, and their next
\* request to the materials API was answered 403.
C22_Witness ==
    \E i, j \in DOMAIN calls :
        /\ i < j
        /\ calls[i].op = "update" /\ calls[i].status = 200
        /\ calls[i].body.access = Some(FALSE)
        /\ calls[j].op \in {"add", "retrieve"}
        /\ calls[j].token = calls[i].token
        /\ calls[j].status = 403

\* C28: while no ingest is in progress every identifier with an entry in
\* one of the three indices has a stored record, and a retrieval has
\* returned only materials whose record is stored.
C28_IndexedHaveRecords ==
    /\ (\A i \in DOMAIN calls :
           calls[i].op = "add" =>
              /\ calls[i].pc = "done"
              /\ \A x \in DOMAIN calls[i].upserts : calls[i].upserts[x] # "inflight"
              /\ \A k \in DOMAIN calls[i].puts : calls[i].puts[k] # "inflight")
          => \A x \in {"ebkp", "name", "desc"} :
                \A e \in VECTORIZE[x] : e.id \in DOMAIN DATA_KV.material
    /\ \A i \in DOMAIN calls :
          calls[i].op = "retrieve" => calls[i].returned \subseteq DOMAIN DATA_KV.material

\* C29: a step raises an account's admin or access flag from false to true
\* only when it is the write of a POST /update whose authenticated account is
\* an admin at that moment, and a step of a request authenticated as a
\* non-admin changes no account (neither another one nor its own flags).
C29_OnlyAdminsGrant ==
    [][\A u \in Usernames :
          LET before == DATA_KV.account[u]
              after == DATA_KV'.account[u]
              raised == /\ IsSome(before)
                        /\ IsSome(after)
                        /\ \/ ~Val(before).admin /\ Val(after).admin
                           \/ ~Val(before).access /\ Val(after).access
              byAdmin == \E i \in DOMAIN calls :
                            /\ calls[i].op = "update"
                            /\ calls[i].pc = "put"
                            /\ calls'[i].pc = "done"
                            /\ IsSome(calls[i].token)
                            /\ IsSome(DATA_KV.account[Val(calls[i].token)])
                            /\ Val(DATA_KV.account[Val(calls[i].token)]).admin
              byUpdate == \E i \in DOMAIN calls : calls[i].op = "update" /\ calls[i].pc = "put"
                                                  /\ calls'[i].pc = "done"
          IN  /\ raised => byAdmin
              /\ (after # before /\ byUpdate) => byAdmin
      ]_vars

\* C30: the write of a signup never lands on an existing account, and at no
\* time have two signups for one username been answered 201.
C30_SignupNeverOverwrites ==
    [][/\ \A i \in DOMAIN calls :
             (calls[i].op = "signup" /\ calls[i].pc = "put" /\ calls'[i].pc = "done")
                => ~IsSome(DATA_KV.account[calls[i].body.username])
       /\ \A i, j \in DOMAIN calls' :
             (/\ calls'[i].op = "signup" /\ calls'[j].op = "signup"
              /\ calls'[i].body.username = calls'[j].body.username
              /\ calls'[i].status = 201 /\ calls'[j].status = 201) => i = j
      ]_vars

====
